---- MODULE Spec2Model ----
(***************************************************************************)
(* ActiveMotion backend.                                                   *)
(*                                                                         *)
(* Part I  : util/hybrid_UI_element.py, the vision-first reconciliation of *)
(*           vision detections with the accessibility dump                 *)
(*           (generate_merged_json and its helpers).                       *)
(* Part II : app/main.py, the graph store (nodes, edges, traffic_index,    *)
(*           parser_outputs), node deletion with its cascade, the graph    *)
(*           query and the graph_updated events.                           *)
(***************************************************************************)
EXTENDS Integers, Sequences, FiniteSets, TLC

VARIABLES
    \* ---- Part I: one call of generate_merged_json ----
    xml_str,          \* the accessibility dump: whether it parses, and its nodes in pre-order
    omni_json_list,   \* the vision detections, in input order
    screen,           \* <<screen_w, screen_h>>
    gpc,              \* position in generate_merged_json: "idle", "loop", "done"
    screen_state,     \* local screen_state
    adb_nodes,        \* local adb_nodes (the pool, each node with its 'matched' flag)
    final_elements,   \* local final_elements
    uid_counter,      \* local uid_counter
    det_idx,          \* position of the `for vision_element in omni_json_list` loop
    match_of,         \* per emitted element: pool index of best_adb_match, 0 for None
    output,           \* the returned document (before json.dumps)
    prev_output,      \* what the previous call on the same arguments returned
    has_prev,         \* whether there was a previous call
    \* ---- Part II: the graph store and its requests ----
    nodes,            \* table nodes: its rows
    edges,            \* table edges: its rows
    traffic_index,    \* table traffic_index: its rows
    parser_outputs,   \* table parser_outputs: its rows
    files,            \* names present in the screenshot directories
    events,           \* messages handed to broadcast_update, in order
    used_ids,         \* every uuid4 drawn so far
    req,              \* the HTTP requests in flight: request -> its local state
    \* ---- Part III: the traffic mapper ----
    proxy_history,    \* the proxy log of the traffic source, oldest entry first
    tm,               \* the last call of the TrafficMapper: arguments and outcome
    \* ---- Part IV: calculate_iou on its own ----
    arg_boxA,         \* argument boxA: [x1, y1, x2, y2]
    arg_boxB,         \* argument boxB
    iou_returned,     \* the value returned, NoIou before the call
    \* ---- Part V: the live-update broadcaster ----
    active_connections, \* manager.active_connections: the registered websockets
    ws,               \* websocket -> "new", "open" (its endpoint runs) or "closed"
    SERVER_LOOP,      \* "running" when SERVER_LOOP is a running loop, else "None"
    pub,              \* the request thread that publishes: where it stands
    bc,               \* the manager.broadcast call made for that thread
    \* ---- Part VI: the connection monitor ----
    mon,              \* monitor_adb_connection: position and locals
    mbc,              \* the manager.broadcast call the monitor awaits
    device_status,    \* what adb.get_status() reports at this moment
    shutdown_event,   \* shutdown_event.is_set()
    polled_before,    \* the status returned by the poll before the last one
    \* ---- Part VII: one capture with the data it handles ----
    cap,              \* analyze_screen: position, locals, and what a later query loaded
    \* ---- Part VIII: the lazily created singletons and the threads calling them ----
    _vision_engine_instance, \* vision_engine._vision_engine_instance
    _vision_engine_lock,     \* vision_engine._vision_engine_lock: its holder, 0 if free
    _instances,       \* VisionEngineMeta._instances[VisionEngine], "None" if absent
    _lock,            \* VisionEngineMeta._lock: its holder, 0 if free
    _adb_controller,  \* adb_controller._adb_controller
    _traffic_mapper,  \* traffic_mapper._traffic_mapper
    objects,          \* class -> number of its instances whose __init__ has run
    th                \* thread -> the call it makes: position, locals, returned value

gvars == <<xml_str, omni_json_list, screen, gpc, screen_state, adb_nodes,
           final_elements, uid_counter, det_idx, match_of, output, prev_output,
           has_prev>>
svars == <<nodes, edges, traffic_index, parser_outputs, files, events, used_ids, req>>
tvars == <<proxy_history, tm>>
ivars == <<arg_boxA, arg_boxB, iou_returned>>
registry == <<active_connections, ws>>
publisher_side == <<pub, bc>>
monitor_side == <<mon, mbc, device_status, shutdown_event, polled_before>>
lvars == <<active_connections, ws, SERVER_LOOP, pub, bc,
           mon, mbc, device_status, shutdown_event, polled_before>>
cvars == <<cap>>
matcher_locals == <<gpc, screen_state, adb_nodes, final_elements, uid_counter, det_idx,
                    match_of, output, prev_output, has_prev>>
vision_globals == <<_vision_engine_instance, _vision_engine_lock, _instances, _lock>>
accessor_globals == <<_adb_controller, _traffic_mapper>>
pvars == <<_vision_engine_instance, _vision_engine_lock, _instances, _lock,
           _adb_controller, _traffic_mapper, objects, th>>
vars  == <<xml_str, omni_json_list, screen, gpc, screen_state, adb_nodes,
           final_elements, uid_counter, det_idx, match_of, output, prev_output,
           has_prev,
           nodes, edges, traffic_index, parser_outputs, files, events, used_ids, req,
           proxy_history, tm,
           arg_boxA, arg_boxB, iou_returned,
           active_connections, ws, SERVER_LOOP, pub, bc,
           mon, mbc, device_status, shutdown_event, polled_before,
           cap,
           _vision_engine_instance, _vision_engine_lock, _instances, _lock,
           _adb_controller, _traffic_mapper, objects, th>>

\* What the steps of one part leave alone: the state of the other parts.
outside_matcher == <<svars, tvars, ivars, lvars, cvars, pvars>>
outside_store == <<gvars, tvars, ivars, lvars, cvars, pvars>>
outside_mapper == <<gvars, svars, ivars, lvars, cvars, pvars>>
outside_iou == <<gvars, svars, tvars, lvars, cvars, pvars>>
outside_live == <<gvars, svars, tvars, ivars, cvars, pvars>>
outside_capture == <<matcher_locals, edges, traffic_index, req, tvars, ivars, lvars, pvars>>
outside_singletons == <<gvars, svars, tvars, ivars, lvars, cvars>>

\* The TrafficMapper before any call.
NoCall ==
    [op |-> "none", edge_id |-> "NULL", start_time |-> 0, end_time |-> 0,
     source |-> "none", raised |-> FALSE, result |-> <<>>]
MapperIdle ==
    /\ proxy_history = <<>>
    /\ tm = NoCall

\* calculate_iou before any call.
NoIou == <<>>
IouIdle ==
    /\ arg_boxA = <<0, 0, 0, 0>>
    /\ arg_boxB = <<0, 0, 0, 0>>
    /\ iou_returned = NoIou

\* The module globals of main.py before the server starts: no websocket, no publish,
\* SERVER_LOOP = None, no monitor task.
None == "None"
NoClient == 0
NoBroadcast ==
    [pc |-> "idle", ctx |-> "none", at_start |-> {}, current |-> NoClient,
     delivered |-> {}, failed |-> {}]
NoPublisher ==
    /\ pub = "none"
    /\ bc = NoBroadcast
NoMonitor ==
    /\ mon = [pc |-> "off", previous_status |-> None, current_status |-> None,
              published |-> FALSE]
    /\ mbc = NoBroadcast
    /\ device_status = "disconnected"
    /\ shutdown_event = FALSE
    /\ polled_before = None
LiveIdle ==
    /\ active_connections = {}
    /\ ws = <<>>
    /\ SERVER_LOOP = None
    /\ NoPublisher
    /\ NoMonitor

\* analyze_screen before any request.
NoCapture ==
    [pc |-> "idle", node_id |-> "NULL", analysis_result |-> <<>>, response |-> <<>>,
     loaded |-> <<>>]
CaptureIdle == cap = NoCapture

\* The process before any thread has called an accessor: every module global is None,
\* both locks are free, nothing has been constructed.
NoThread == 0
NoCaller == <<>>
SingletonsUnset ==
    /\ _vision_engine_instance = None
    /\ _vision_engine_lock = NoThread
    /\ _instances = None
    /\ _lock = NoThread
    /\ _adb_controller = None
    /\ _traffic_mapper = None
    /\ objects = [VisionEngine |-> 0, ADBController |-> 0, TrafficMapper |-> 0]
SingletonsIdle == SingletonsUnset /\ th = NoCaller
OthersIdle == CaptureIdle /\ SingletonsIdle

(***************************************************************************)
(* Bounds of the model.                                                    *)
(***************************************************************************)
MaxNodes == 3       \* longest accessibility dump (number of XML nodes)
MaxDets == 2        \* longest detection list
MaxRequests == 2    \* HTTP requests served (concurrently, by the worker threads)
MaxEntries == 3     \* longest proxy log
MaxCoord == 2       \* largest pixel coordinate of a box handed to calculate_iou
MaxClients == 2     \* websockets that ever connect
MaxThreads == 3     \* threads that call an accessor of a singleton

(***************************************************************************)
(* Small helpers: Python values.                                           *)
(***************************************************************************)
Max2(a, b) == IF a >= b THEN a ELSE b
Min2(a, b) == IF a <= b THEN a ELSE b

\* int(x) of a quotient n/d with d > 0: truncation toward zero.
Trunc(n, d) == IF n >= 0 THEN n \div d ELSE -((-n) \div d)

\* `sub in s` on Python strings.
StrContains(s, sub) ==
    \E i \in 1..(Len(s) - Len(sub) + 1) : SubSeq(s, i, i + Len(sub) - 1) = sub

\* sep.join(strs)
RECURSIVE StrJoin(_, _)
StrJoin(strs, sep) ==
    IF strs = <<>> THEN ""
    ELSE IF Len(strs) = 1 THEN strs[1]
    ELSE strs[1] \o sep \o StrJoin(Tail(strs), sep)

\* Rationals <<n, d>> with d > 0 stand for Python floats; the quotients that occur
\* have small integer numerators and denominators, for which float comparison and
\* exact comparison agree.
RatGt(p, q) == p[1] * q[2] > q[1] * p[2]
RatEq(p, q) == p[1] * q[2] = q[1] * p[2]

(***************************************************************************)
(* Inputs.  An XML node of the dump carries its attributes; `bounds` is    *)
(* the list of digit runs re.findall(r'\d+') finds in the bounds string    *)
(* (<<>> when the attribute is missing or has no digits).  The <hierarchy>  *)
(* root element has no bounds attribute and is left out of the sequence.   *)
(***************************************************************************)
XmlSave ==
    [bounds |-> <<0, 0, 2, 3>>, text |-> "Save", content_desc |-> "Save file",
     resource_id |-> "id/save", class |-> "android.widget.TextView",
     clickable |-> "true", scrollable |-> "false", checked |-> "false",
     selected |-> "true", enabled |-> "true"]
XmlPlay ==
    [bounds |-> <<0, 0, 2, 3>>, text |-> "", content_desc |-> "Play",
     resource_id |-> "id/play", class |-> "android.widget.ImageView",
     clickable |-> "true", scrollable |-> "false", checked |-> "true",
     selected |-> "false", enabled |-> "false"]
XmlFrame ==
    [bounds |-> <<0, 0, 4, 8>>, text |-> "", content_desc |-> "",
     resource_id |-> "", class |-> "android.widget.FrameLayout",
     clickable |-> "false", scrollable |-> "true", checked |-> "false",
     selected |-> "false", enabled |-> "true"]
XmlEdit ==
    [bounds |-> <<0, 0, 2, 5>>, text |-> "", content_desc |-> "",
     resource_id |-> "id/input", class |-> "android.widget.EditText",
     clickable |-> "true", scrollable |-> "false", checked |-> "false",
     selected |-> "false", enabled |-> "true"]
XmlGhost ==
    [bounds |-> <<0, 0, 4>>, text |-> "Ghost", content_desc |-> "",
     resource_id |-> "id/ghost", class |-> "android.view.View",
     clickable |-> "false", scrollable |-> "true", checked |-> "false",
     selected |-> "false", enabled |-> "true"]

XmlNodeKinds == {XmlSave, XmlPlay, XmlFrame, XmlEdit, XmlGhost}

\* A normalized bbox coordinate k/8 (exact as a float).
Eighths(k) == <<k, 8>>

DetSav3 ==
    [type |-> "text", content |-> "Sav3",
     bbox |-> <<Eighths(0), Eighths(0), Eighths(4), Eighths(3)>>]
DetArrow ==
    [type |-> "icon", content |-> "arrow",
     bbox |-> <<Eighths(0), Eighths(0), Eighths(3), Eighths(3)>>]
DetPanel ==
    [type |-> "icon", content |-> "panel",
     bbox |-> <<Eighths(0), Eighths(2), Eighths(5), Eighths(8)>>]

DetectionKinds == {DetSav3, DetArrow, DetPanel}

\* <<screen_w, screen_h>>: on a width of 4 the bbox edges 3/8 and 5/8 fall between
\* pixels (1.5 and 2.5) and are truncated.
ScreenSizes == {<<4, 8>>}

SeqsUpTo(S, n) == UNION {[1..k -> S] : k \in 0..n}

\* ET.fromstring either raises ParseError or yields the tree.  The nodes of the
\* malformed dump are the node tags its text still shows (a dump cut off before its
\* closing tags); no tree is built from them.
MalformedDump == [parses |-> FALSE, nodes |-> <<XmlFrame, XmlSave>>]
Dumps == {MalformedDump} \cup
         {[parses |-> TRUE, nodes |-> ns] : ns \in SeqsUpTo(XmlNodeKinds, MaxNodes)}
DetectionLists == SeqsUpTo(DetectionKinds, MaxDets)

(***************************************************************************)
(* hybrid_UI_element.py: helper functions.                                 *)
(***************************************************************************)
\* Mutant: containment that excludes coinciding edges.
is_contained_strict(outer, inner) ==
    /\ outer[1] < inner[1]
    /\ outer[2] < inner[2]
    /\ outer[3] > inner[3]
    /\ outer[4] > inner[4]

is_contained(outer, inner) ==
    /\ outer[1] <= inner[1]
    /\ outer[2] <= inner[2]
    /\ outer[3] >= inner[3]
    /\ outer[4] >= inner[4]

\* parse_bounds of the bounds attribute whose digit runs are `digits`;
\* NoBounds is the None it returns.
NoBounds == <<>>
parse_bounds(digits) == IF Len(digits) = 4 THEN digits ELSE NoBounds

\* Mutant: the pixel values are rounded to the nearest integer.
convert_omni_bbox_rounds(bbox, screen_w, screen_h) ==
    << Trunc(2 * bbox[1][1] * screen_w + bbox[1][2], 2 * bbox[1][2]),
       Trunc(2 * bbox[2][1] * screen_h + bbox[2][2], 2 * bbox[2][2]),
       Trunc(2 * bbox[3][1] * screen_w + bbox[3][2], 2 * bbox[3][2]),
       Trunc(2 * bbox[4][1] * screen_h + bbox[4][2], 2 * bbox[4][2]) >>

convert_omni_bbox(bbox, screen_w, screen_h) ==
    << Trunc(bbox[1][1] * screen_w, bbox[1][2]),
       Trunc(bbox[2][1] * screen_h, bbox[2][2]),
       Trunc(bbox[3][1] * screen_w, bbox[3][2]),
       Trunc(bbox[4][1] * screen_h, bbox[4][2]) >>

\* Mutant: the union is the sum of the two areas.
calculate_iou_sum_union(boxA, boxB) ==
    LET interWidth == Max2(0, Min2(boxA[3], boxB[3]) - Max2(boxA[1], boxB[1]))
        interHeight == Max2(0, Min2(boxA[4], boxB[4]) - Max2(boxA[2], boxB[2]))
        unionArea == (boxA[3] - boxA[1]) * (boxA[4] - boxA[2])
                       + (boxB[3] - boxB[1]) * (boxB[4] - boxB[2])
    IN  IF unionArea = 0 THEN <<0, 1>>
        ELSE IF unionArea < 0 THEN <<-(interWidth * interHeight), -unionArea>>
        ELSE <<interWidth * interHeight, unionArea>>

\* Mutant: the width and height of the intersection are not clamped at 0.
calculate_iou_unclamped(boxA, boxB) ==
    LET interWidth == Min2(boxA[3], boxB[3]) - Max2(boxA[1], boxB[1])
        interHeight == Min2(boxA[4], boxB[4]) - Max2(boxA[2], boxB[2])
        interArea == interWidth * interHeight
        unionArea == (boxA[3] - boxA[1]) * (boxA[4] - boxA[2])
                       + (boxB[3] - boxB[1]) * (boxB[4] - boxB[2]) - interArea
    IN  IF unionArea = 0 THEN <<0, 1>>
        ELSE IF unionArea < 0 THEN <<-interArea, -unionArea>>
        ELSE <<interArea, unionArea>>

\* The IoU as a rational <<n, d>>, d > 0 (a quotient by a negative union is written
\* with the sign in the numerator).
calculate_iou(boxA, boxB) ==
    LET xA == Max2(boxA[1], boxB[1])
        yA == Max2(boxA[2], boxB[2])
        xB == Min2(boxA[3], boxB[3])
        yB == Min2(boxA[4], boxB[4])
        interWidth == Max2(0, xB - xA)
        interHeight == Max2(0, yB - yA)
        interArea == interWidth * interHeight
        boxAArea == (boxA[3] - boxA[1]) * (boxA[4] - boxA[2])
        boxBArea == (boxB[3] - boxB[1]) * (boxB[4] - boxB[2])
        unionArea == boxAArea + boxBArea - interArea
    IN  IF unionArea = 0 THEN <<0, 1>>
        ELSE IF unionArea < 0 THEN <<-interArea, -unionArea>>
        ELSE <<interArea, unionArea>>

(***************************************************************************)
(* analyze_screen_state                                                    *)
(***************************************************************************)
RECURSIVE ScrollableAreas(_)
ScrollableAreas(xml_nodes) ==
    IF xml_nodes = <<>> THEN <<>>
    ELSE LET node == Head(xml_nodes)
             bounds == parse_bounds(node.bounds)
         IN  IF node.scrollable = "true" /\ bounds # NoBounds
             THEN <<bounds>> \o ScrollableAreas(Tail(xml_nodes))
             ELSE ScrollableAreas(Tail(xml_nodes))

DefaultScreenState == [can_scroll_vertical |-> FALSE, scrollable_areas |-> <<>>]

\* Mutant: each scrollable node overwrites the areas recorded before it.
analyze_screen_state_last_area(xml) ==
    LET areas == ScrollableAreas(xml.nodes)
    IN  IF ~xml.parses \/ areas = <<>>
        THEN DefaultScreenState
        ELSE [can_scroll_vertical |-> TRUE, scrollable_areas |-> <<areas[Len(areas)]>>]

analyze_screen_state(xml) ==
    IF ~xml.parses
    THEN DefaultScreenState
    ELSE [can_scroll_vertical |-> ScrollableAreas(xml.nodes) # <<>>,
          scrollable_areas |-> ScrollableAreas(xml.nodes)]

(***************************************************************************)
(* extract_adb_nodes                                                       *)
(***************************************************************************)
AdbNode(node) ==
    [type |-> "adb",
     text |-> node.text,
     description |-> node.content_desc,
     resource_id |-> node.resource_id,
     class |-> node.class,
     bounds |-> parse_bounds(node.bounds),
     actions |-> [clickable |-> node.clickable = "true",
                  scrollable |-> node.scrollable = "true",
                  editable |-> StrContains(node.class, "EditText"),
                  checked |-> node.checked = "true",
                  enabled |-> node.enabled = "true",
                  selected |-> node.selected = "true"]]

RECURSIVE ExtractNodes(_)
ExtractNodes(xml_nodes) ==
    IF xml_nodes = <<>> THEN <<>>
    ELSE IF parse_bounds(Head(xml_nodes).bounds) = NoBounds
         THEN ExtractNodes(Tail(xml_nodes))
         ELSE <<AdbNode(Head(xml_nodes))>> \o ExtractNodes(Tail(xml_nodes))

\* Mutant: a dump that does not parse is read leniently, tag by tag.
extract_adb_nodes_lenient(xml) == ExtractNodes(xml.nodes)

\* Mutant: nodes with neither text nor a clickable flag are left out of the pool.
extract_adb_nodes_interactive_only(xml) ==
    IF ~xml.parses THEN <<>>
    ELSE LET Interactive(n) == n.text # "" \/ n.actions.clickable
         IN  SelectSeq(ExtractNodes(xml.nodes), Interactive)

extract_adb_nodes(xml) == IF ~xml.parses THEN <<>> ELSE ExtractNodes(xml.nodes)

(***************************************************************************)
(* generate_merged_json: the vision-first loop.                            *)
(***************************************************************************)
\* Mutant: a pool kept across calls, with the flags the previous call left.
MarkUnmatchedStale(extracted) ==
    IF Len(adb_nodes) = Len(extracted) THEN adb_nodes
    ELSE [i \in 1..Len(extracted) |->
            [type |-> extracted[i].type, text |-> extracted[i].text,
             description |-> extracted[i].description,
             resource_id |-> extracted[i].resource_id, class |-> extracted[i].class,
             bounds |-> extracted[i].bounds, actions |-> extracted[i].actions,
             matched |-> FALSE]]

\* `for adb in adb_nodes: adb['matched'] = False`
MarkUnmatched(extracted) ==
    [i \in 1..Len(extracted) |->
        [type |-> extracted[i].type, text |-> extracted[i].text,
         description |-> extracted[i].description,
         resource_id |-> extracted[i].resource_id, class |-> extracted[i].class,
         bounds |-> extracted[i].bounds, actions |-> extracted[i].actions,
         matched |-> FALSE]]

\* Mutant: the matched node is not flagged.
MarkMatchedForgotten(pool, best) == pool

\* `best_adb_match['matched'] = True`
MarkMatched(pool, best) == [pool EXCEPT ![best].matched = TRUE]

\* The literal 0.3 of the acceptance test.
IouThreshold == <<3, 10>>

\* Mutant: a later node of equal IoU replaces the best so far.
IouAcceptTiesReplace(iou, best_iou) == RatGt(iou, IouThreshold) /\ ~RatGt(best_iou, iou)

\* Mutant: an IoU of exactly 0.3 is accepted.
IouAcceptAtThreshold(iou, best_iou) == ~RatGt(IouThreshold, iou) /\ RatGt(iou, best_iou)

\* `if iou > 0.3 and iou > best_iou`
IouAccept(iou, best_iou) == RatGt(iou, IouThreshold) /\ RatGt(iou, best_iou)

\* `for adb in adb_nodes`, from pool position i on, with the best so far.
RECURSIVE ScanPool(_, _, _, _, _)
ScanPool(vision_bounds, pool, i, best_iou, best) ==
    IF i > Len(pool) THEN best
    ELSE IF pool[i].matched
         THEN ScanPool(vision_bounds, pool, i + 1, best_iou, best)
         ELSE LET iou == calculate_iou(vision_bounds, pool[i].bounds)
              IN  IF IouAccept(iou, best_iou)
                  THEN ScanPool(vision_bounds, pool, i + 1, iou, i)
                  ELSE ScanPool(vision_bounds, pool, i + 1, best_iou, best)

\* Mutant: the scan does not skip the nodes already matched, so a later detection
\* with a greater IoU takes a node over.
FindBestMatchAmongAll(vision_bounds, pool) ==
    ScanPool(vision_bounds, [i \in 1..Len(pool) |-> [pool[i] EXCEPT !.matched = FALSE]],
             1, <<0, 1>>, 0)

\* best_adb_match as a pool index, 0 for None (best_iou starts at 0.0).
FindBestMatch(vision_bounds, pool) == ScanPool(vision_bounds, pool, 1, <<0, 1>>, 0)

\* `for child in adb_nodes`: the texts harvested inside pool[best], from position i on.
RECURSIVE ChildTexts(_, _, _)
ChildTexts(pool, best, i) ==
    IF i > Len(pool) THEN <<>>
    ELSE LET child == pool[i]
             txt == IF child.text # "" THEN child.text ELSE child.description
         IN  IF i # best /\ is_contained(pool[best].bounds, child.bounds) /\ txt # ""
             THEN <<txt>> \o ChildTexts(pool, best, i + 1)
             ELSE ChildTexts(pool, best, i + 1)

\* Mutant: the description is preferred to the text.
ApplyPriorityDescFirst(candidate_text, candidate_desc, ocr) ==
    IF candidate_desc # "" THEN candidate_desc
    ELSE IF candidate_text # "" THEN candidate_text
    ELSE ocr

\* `if candidate_text: ... elif candidate_desc: ...  # else: keep original OCR content`
ApplyPriority(candidate_text, candidate_desc, ocr) ==
    IF candidate_text # "" THEN candidate_text
    ELSE IF candidate_desc # "" THEN candidate_desc
    ELSE ocr

ResolveContent(pool, best, ocr) ==
    LET candidate_desc == pool[best].description
        child_texts == IF pool[best].text = "" /\ candidate_desc = ""
                       THEN ChildTexts(pool, best, 1) ELSE <<>>
        candidate_text == IF child_texts # <<>> THEN StrJoin(child_texts, " ")
                          ELSE pool[best].text
    IN  ApplyPriority(candidate_text, candidate_desc, ocr)

\* element['adb_attributes'] = {...}
AdbAttributes(adb) ==
    [text |-> adb.text,
     resource_id |-> adb.resource_id,
     content_desc |-> adb.description,
     class |-> adb.class,
     clickable |-> adb.actions.clickable,
     scrollable |-> adb.actions.scrollable,
     editable |-> adb.actions.editable,
     checked |-> adb.actions.checked,
     selected |-> adb.actions.selected]

\* `element = {...}` initialised from the vision data.
VisionElement(uid, vision_element, vision_bounds) ==
    [uid |-> uid, source |-> "vision_only", type |-> vision_element.type,
     content |-> vision_element.content, bounds |-> vision_bounds]

\* The element after the enrichment branch.
EnrichedElement(element, content, attrs) ==
    [uid |-> element.uid, source |-> "vision_enriched", type |-> element.type,
     content |-> content, bounds |-> element.bounds, adb_attributes |-> attrs]

\* Mutant: the counter is not advanced.
NextUidStuck(uid) == uid

\* `uid_counter += 1`
NextUid(uid) == uid + 1

NoOutput == [screen_state |-> DefaultScreenState, elements |-> <<>>]

\* The vision-first loop as one computation: the elements appended from detection k
\* on, given the pool with its flags and the uid counter.
RECURSIVE VisionFirstLoop(_, _, _, _, _, _)
VisionFirstLoop(omni, k, pool, uid, screen_w, screen_h) ==
    IF k > Len(omni) THEN <<>>
    ELSE LET vision_element == omni[k]
             vision_bounds == convert_omni_bbox(vision_element.bbox, screen_w, screen_h)
             element == VisionElement(uid, vision_element, vision_bounds)
             best == FindBestMatch(vision_bounds, pool)
         IN  IF best # 0
             THEN <<EnrichedElement(element,
                                    ResolveContent(pool, best, element.content),
                                    AdbAttributes(pool[best]))>>
                  \o VisionFirstLoop(omni, k + 1, MarkMatched(pool, best), NextUid(uid),
                                     screen_w, screen_h)
             ELSE <<element>>
                  \o VisionFirstLoop(omni, k + 1, pool, NextUid(uid), screen_w, screen_h)

\* generate_merged_json as a function of its arguments: the document it returns.
generate_merged_json(xml, omni, screen_w, screen_h) ==
    [screen_state |-> analyze_screen_state(xml),
     elements |-> VisionFirstLoop(omni, 1, MarkUnmatched(extract_adb_nodes(xml)), 1,
                                  screen_w, screen_h)]

\* Steps 1 and 2 and the locals set before the loop.
GmjStart ==
    /\ gpc = "idle"
    /\ screen_state' = analyze_screen_state(xml_str)
    /\ adb_nodes' = MarkUnmatched(extract_adb_nodes(xml_str))
    /\ final_elements' = <<>>
    /\ uid_counter' = 1
    /\ det_idx' = 1
    /\ match_of' = <<>>
    /\ gpc' = "loop"
    /\ UNCHANGED <<xml_str, omni_json_list, screen, output, prev_output, has_prev>>
    /\ UNCHANGED outside_matcher

\* One iteration of `for vision_element in omni_json_list`.
GmjStep ==
    /\ gpc = "loop"
    /\ det_idx <= Len(omni_json_list)
    /\ LET vision_element == omni_json_list[det_idx]
           vision_bounds == convert_omni_bbox(vision_element.bbox, screen[1], screen[2])
           element == VisionElement(uid_counter, vision_element, vision_bounds)
           best == FindBestMatch(vision_bounds, adb_nodes)
       IN  /\ IF best # 0
              THEN /\ adb_nodes' = MarkMatched(adb_nodes, best)
                   /\ final_elements' = Append(final_elements,
                          EnrichedElement(element,
                              ResolveContent(adb_nodes, best, element.content),
                              AdbAttributes(adb_nodes[best])))
              ELSE /\ adb_nodes' = adb_nodes
                   /\ final_elements' = Append(final_elements, element)
           /\ match_of' = Append(match_of, best)
    /\ uid_counter' = NextUid(uid_counter)
    /\ det_idx' = det_idx + 1
    /\ UNCHANGED <<xml_str, omni_json_list, screen, gpc, screen_state, output, prev_output,
                   has_prev>>
    /\ UNCHANGED outside_matcher

\* Step 6: the loop is exhausted, the document is built and returned.
GmjReturn ==
    /\ gpc = "loop"
    /\ det_idx > Len(omni_json_list)
    /\ output' = [screen_state |-> screen_state, elements |-> final_elements]
    /\ gpc' = "done"
    /\ UNCHANGED <<xml_str, omni_json_list, screen, screen_state, adb_nodes,
                   final_elements, uid_counter, det_idx, match_of, prev_output, has_prev>>
    /\ UNCHANGED outside_matcher

\* The caller calls generate_merged_json again with the same arguments.
GmjCallAgain ==
    /\ gpc = "done"
    /\ prev_output' = output
    /\ has_prev' = TRUE
    /\ gpc' = "idle"
    /\ UNCHANGED <<xml_str, omni_json_list, screen, screen_state, adb_nodes,
                   final_elements, uid_counter, det_idx, match_of, output>>
    /\ UNCHANGED outside_matcher

InitMatcher ==
    /\ xml_str \in Dumps
    /\ omni_json_list \in DetectionLists
    /\ screen \in ScreenSizes
    /\ gpc = "idle"
    /\ screen_state = DefaultScreenState
    /\ adb_nodes = <<>>
    /\ final_elements = <<>>
    /\ uid_counter = 1
    /\ det_idx = 1
    /\ match_of = <<>>
    /\ output = NoOutput
    /\ prev_output = NoOutput
    /\ has_prev = FALSE

StoreEmpty ==
    /\ nodes = {}
    /\ edges = {}
    /\ traffic_index = {}
    /\ parser_outputs = {}
    /\ files = {}
    /\ events = <<>>
    /\ used_ids = {}
    /\ req = <<>>

InitSpecMatcher == InitMatcher /\ StoreEmpty /\ MapperIdle /\ IouIdle /\ LiveIdle /\ OthersIdle

NextMatcher == GmjStart \/ GmjStep \/ GmjReturn \/ GmjCallAgain

SpecMatcher == InitSpecMatcher /\ [][NextMatcher]_vars

(***************************************************************************)
(* Part II.  main.py: the graph store.                                     *)
(*                                                                         *)
(* The tables hold what init_db declares.  The server itself only inserts  *)
(* nodes and parser_outputs (analyze_screen) and deletes (delete_node);    *)
(* edges and traffic_index rows come from the seed script                  *)
(* (Data/run_mock_sql.py), run before the server serves.  Every statement  *)
(* outside a transaction sees the committed tables; the statements between *)
(* the first INSERT/DELETE of a connection and its commit() take effect    *)
(* together.                                                               *)
(***************************************************************************)
NULL == "NULL"

SeedNodeIds == {"n1", "n2"}
SeedTrafficIds == {"t1", "t2"}
\* Mutant: an id generator that hands out the same value again.
Uuid4Repeats(drawn) == "c1"

\* uuid.uuid4(): the k-th value drawn is "c<k>", a value never drawn before (which
\* 122-bit value comes out plays no role in the handlers).
Uuid4(drawn) == "c" \o ToString(Cardinality(drawn) + 1)
MissingIds == {"nx"}              \* an id no node ever has

ScreenshotName(node_id) == node_id \o ".png"
AnnotatedName(node_id) == node_id \o "_annotated.png"

NodeRow(node_id) ==
    [id |-> node_id, screenshot_path |-> ScreenshotName(node_id),
     annotated_screenshot_path |-> AnnotatedName(node_id)]
ParserRow(node_id) == [node_id |-> node_id, parsed_content_list |-> "parsed " \o node_id]

Ids(rows) == {row.id : row \in rows}

\* The seeded tables: edges between seeded nodes (e1 leaves n1, e2 leaves n2, either
\* may be a self-loop or absent), both traffic rows tied to a seeded edge or to none.
SeedEdgeRows ==
    [id : {"e1"}, source_node_id : {"n1"}, target_node_id : SeedNodeIds] \cup
    [id : {"e2"}, source_node_id : {"n2"}, target_node_id : SeedNodeIds]
SeedEdgeTables ==
    {tbl \in SUBSET SeedEdgeRows : \A a, b \in tbl : a.id = b.id => a = b}
SeedTrafficTables(edge_ids) ==
    {tbl \in SUBSET [id : SeedTrafficIds, edge_id : edge_ids \cup {NULL}] :
        /\ \A a, b \in tbl : a.id = b.id => a = b
        /\ Ids(tbl) = SeedTrafficIds}

Reqs == 1..MaxRequests

IdleRequest ==
    [kind |-> "none", pc |-> "idle", node_id |-> NULL, edge_ids |-> {},
     screenshot_path |-> NULL, annotated_path |-> NULL, status |-> "none",
     got_nodes |-> {}, got_edges |-> {}, got_traffic |-> {},
     body |-> [nodes |-> {}, edges |-> {}],
     after |-> {}]

InitStore ==
    /\ \E ids \in {SeedNodeIds} :
         /\ nodes = {NodeRow(n) : n \in ids}
         /\ parser_outputs = {ParserRow(n) : n \in ids}
         /\ files = {ScreenshotName(n) : n \in ids} \cup {AnnotatedName(n) : n \in ids}
         /\ edges \in SeedEdgeTables
    /\ traffic_index \in SeedTrafficTables(Ids(edges))
    /\ events = <<>>
    /\ used_ids = {}
    /\ req = [r \in Reqs |-> IdleRequest]

\* Requests are numbered in their order of arrival.
CanArrive(r) ==
    /\ req[r].pc = "idle"
    /\ \A q \in Reqs : q < r => req[q].pc # "idle"

\* Delete requests whose transaction has committed.
CommittedDeletes ==
    {d \in Reqs : req[d].kind = "delete" /\ req[d].pc \in {"committed", "done"}}

frame_store == <<nodes, edges, traffic_index, parser_outputs>>

(***************************************************************************)
(* DELETE /api/nodes/{node_id}: delete_node and delete_node_and_related.   *)
(***************************************************************************)
\* SELECT screenshot_path, annotated_screenshot_path FROM nodes WHERE id = ?
SelectNode(node_table, node_id) == {row \in node_table : row.id = node_id}

\* Mutant: a plain `return` instead of the raise, so delete_node carries on.
NotFoundReturns(q) == [q EXCEPT !.pc = "committed"]

\* `if not node_row: conn.close(); raise HTTPException(status_code=404, ...)`
NotFoundOutcome(q) == [q EXCEPT !.pc = "not_found", !.status = "404"]

\* The request arrives and runs the SELECT on nodes.
DeleteLookup(r) ==
    /\ CanArrive(r)
    /\ \E node_id \in SeedNodeIds \cup used_ids \cup MissingIds :
         LET q == [IdleRequest EXCEPT !.kind = "delete", !.node_id = node_id]
             rows == SelectNode(nodes, node_id)
         IN  IF rows = {}
             THEN req' = [req EXCEPT ![r] = NotFoundOutcome(q)]
             ELSE \E node_row \in rows :
                    req' = [req EXCEPT ![r] =
                              [q EXCEPT !.pc = "find_edges",
                                        !.screenshot_path = node_row.screenshot_path,
                                        !.annotated_path = node_row.annotated_screenshot_path]]
    /\ UNCHANGED <<frame_store, files, events, used_ids>>
    /\ UNCHANGED outside_store

\* Mutant: only the edges leaving the node are looked up.
SelectEdgeIdsSourceOnly(edge_table, node_id) ==
    {e.id : e \in {x \in edge_table : x.source_node_id = node_id}}

\* SELECT id FROM edges WHERE source_node_id = ? OR target_node_id = ?
SelectEdgeIds(edge_table, node_id) ==
    {e.id : e \in {x \in edge_table : x.source_node_id = node_id \/ x.target_node_id = node_id}}

\* Mutant: "Node deleted" is published as soon as the edges are looked up, before the
\* DELETE statements and the commit.
DeleteFindEdgesAnnounces(r) ==
    /\ req[r].kind = "delete"
    /\ req[r].pc = "find_edges"
    /\ req' = [req EXCEPT ![r].pc = "delete_rows",
                          ![r].edge_ids = SelectEdgeIds(edges, req[r].node_id)]
    /\ events' = Append(events, [type |-> "graph_updated", message |-> "Node deleted",
                                  nodeId |-> req[r].node_id])
    /\ UNCHANGED <<frame_store, files, used_ids>>
    /\ UNCHANGED outside_store

DeleteFindEdges(r) ==
    /\ req[r].kind = "delete"
    /\ req[r].pc = "find_edges"
    /\ req' = [req EXCEPT ![r].pc = "delete_rows",
                          ![r].edge_ids = SelectEdgeIds(edges, req[r].node_id)]
    /\ UNCHANGED <<frame_store, files, events, used_ids>>
    /\ UNCHANGED outside_store

\* DELETE FROM traffic_index WHERE edge_id IN (...), run only `if edge_ids`
DeleteTraffic(traffic_table, edge_ids) ==
    IF edge_ids # {} THEN {t \in traffic_table : t.edge_id \notin edge_ids}
    ELSE traffic_table

\* DELETE FROM parser_outputs WHERE node_id = ?
DeleteParserOutput(parser_table, node_id) == {p \in parser_table : p.node_id # node_id}

\* Mutant: only the edges leaving the node are deleted.
DeleteEdgesSourceOnly(edge_table, node_id) ==
    {e \in edge_table : e.source_node_id # node_id}

\* DELETE FROM edges WHERE source_node_id = ? OR target_node_id = ?
DeleteEdges(edge_table, node_id) ==
    {e \in edge_table : ~(e.source_node_id = node_id \/ e.target_node_id = node_id)}

\* DELETE FROM nodes WHERE id = ?
DeleteNodeRow(node_table, node_id) == {n \in node_table : n.id # node_id}

\* The four DELETE statements and conn.commit().
DeleteCommit(r) ==
    /\ req[r].kind = "delete"
    /\ req[r].pc = "delete_rows"
    /\ traffic_index' = DeleteTraffic(traffic_index, req[r].edge_ids)
    /\ parser_outputs' = DeleteParserOutput(parser_outputs, req[r].node_id)
    /\ edges' = DeleteEdges(edges, req[r].node_id)
    /\ nodes' = DeleteNodeRow(nodes, req[r].node_id)
    /\ req' = [req EXCEPT ![r].pc = "committed"]
    /\ UNCHANGED <<files, events, used_ids>>
    /\ UNCHANGED outside_store

\* os.remove of one file: only `if path` and if it exists; an OSError is swallowed
\* and leaves the file.
RemoveFile(fs, path, os_error) ==
    IF path # NULL /\ path \in fs /\ ~os_error THEN fs \ {path} ELSE fs

GraphUpdated(message, node_id) ==
    [type |-> "graph_updated", message |-> message, nodeId |-> node_id]

\* Mutant: an OSError of os.remove is not caught and fails the request.
DeleteFinishSurfacesError(r) ==
    /\ req[r].kind = "delete"
    /\ req[r].pc = "committed"
    /\ \E err1, err2 \in BOOLEAN :
         /\ files' = RemoveFile(RemoveFile(files, req[r].screenshot_path, err1),
                                req[r].annotated_path, err2)
         /\ IF err1 \/ err2
            THEN /\ events' = events
                 /\ req' = [req EXCEPT ![r].pc = "done", ![r].status = "500"]
            ELSE /\ events' = Append(events, GraphUpdated("Node deleted", req[r].node_id))
                 /\ req' = [req EXCEPT ![r].pc = "done", ![r].status = "deleted"]
    /\ UNCHANGED <<frame_store, used_ids>>
    /\ UNCHANGED outside_store

\* The best-effort removal of the two files, then, back in delete_node,
\* broadcast_update and the response.
DeleteFinish(r) ==
    /\ req[r].kind = "delete"
    /\ req[r].pc = "committed"
    /\ \E err1, err2 \in BOOLEAN :
         files' = RemoveFile(RemoveFile(files, req[r].screenshot_path, err1),
                             req[r].annotated_path, err2)
    /\ events' = Append(events, GraphUpdated("Node deleted", req[r].node_id))
    /\ req' = [req EXCEPT ![r].pc = "done", ![r].status = "deleted"]
    /\ UNCHANGED <<frame_store, used_ids>>
    /\ UNCHANGED outside_store

(***************************************************************************)
(* POST /api/analyze-screen: analyze_screen.                               *)
(***************************************************************************)
\* Mutant: the node row is inserted and committed before vision.analyze_image is
\* called, so it stays behind when the analysis raises.
AnalyzeCaptureSavesFirst(r) ==
    /\ CanArrive(r)
    /\ LET q == [IdleRequest EXCEPT !.kind = "analyze"]
       IN  \/ /\ req' = [req EXCEPT ![r] = [q EXCEPT !.pc = "done", !.status = "error"]]
              /\ UNCHANGED <<files, used_ids, nodes>>
           \/ \E node_id \in {Uuid4(used_ids)} :
                /\ used_ids' = used_ids \cup {node_id}
                /\ \/ /\ req' = [req EXCEPT ![r] = [q EXCEPT !.pc = "done", !.status = "error",
                                                             !.node_id = node_id]]
                      /\ files' = files
                      /\ nodes' = nodes
                   \/ /\ req' = [req EXCEPT ![r] = [q EXCEPT !.pc = "done", !.status = "500",
                                                             !.node_id = node_id]]
                      /\ files' = files \cup {ScreenshotName(node_id)}
                      /\ nodes' = nodes \cup {NodeRow(node_id)}
                   \/ /\ req' = [req EXCEPT ![r] =
                                    [q EXCEPT !.pc = "save", !.node_id = node_id,
                                              !.screenshot_path = ScreenshotName(node_id),
                                              !.annotated_path = AnnotatedName(node_id)]]
                      /\ files' = files \cup {ScreenshotName(node_id), AnnotatedName(node_id)}
                      /\ nodes' = nodes
    /\ UNCHANGED <<edges, traffic_index, parser_outputs, events>>
    /\ UNCHANGED outside_store

\* Steps 1 to 3.  The device is not connected and connect() fails; or the node id is
\* drawn and take_screenshot raises; or the screenshot is written and
\* vision.analyze_image raises; or it returns, having written the annotated screenshot.
AnalyzeCapture(r) ==
    /\ CanArrive(r)
    /\ LET q == [IdleRequest EXCEPT !.kind = "analyze"]
       IN  \/ /\ req' = [req EXCEPT ![r] = [q EXCEPT !.pc = "done", !.status = "error"]]
              /\ UNCHANGED <<files, used_ids>>
           \/ \E node_id \in {Uuid4(used_ids)} :
                /\ used_ids' = used_ids \cup {node_id}
                /\ \/ /\ req' = [req EXCEPT ![r] = [q EXCEPT !.pc = "done", !.status = "error",
                                                             !.node_id = node_id]]
                      /\ files' = files
                   \/ /\ req' = [req EXCEPT ![r] = [q EXCEPT !.pc = "done", !.status = "500",
                                                             !.node_id = node_id]]
                      /\ files' = files \cup {ScreenshotName(node_id)}
                   \/ /\ req' = [req EXCEPT ![r] =
                                    [q EXCEPT !.pc = "save", !.node_id = node_id,
                                              !.screenshot_path = ScreenshotName(node_id),
                                              !.annotated_path = AnnotatedName(node_id)]]
                      /\ files' = files \cup {ScreenshotName(node_id), AnnotatedName(node_id)}
    /\ UNCHANGED <<frame_store, events>>
    /\ UNCHANGED outside_store

\* Mutant: the node row is committed without its parser_outputs row.
AnalyzeCommitNodeOnly(r) ==
    /\ req[r].kind = "analyze"
    /\ req[r].pc = "save"
    /\ nodes' = nodes \cup {NodeRow(req[r].node_id)}
    /\ req' = [req EXCEPT ![r].pc = "saved"]
    /\ UNCHANGED <<edges, traffic_index, parser_outputs, files, events, used_ids>>
    /\ UNCHANGED outside_store

\* Step 4: INSERT INTO nodes, INSERT INTO parser_outputs, conn.commit().
AnalyzeCommit(r) ==
    /\ req[r].kind = "analyze"
    /\ req[r].pc = "save"
    /\ nodes' = nodes \cup {NodeRow(req[r].node_id)}
    /\ parser_outputs' = parser_outputs \cup {ParserRow(req[r].node_id)}
    /\ req' = [req EXCEPT ![r].pc = "saved"]
    /\ UNCHANGED <<edges, traffic_index, files, events, used_ids>>
    /\ UNCHANGED outside_store

\* Steps 5 and 6: broadcast_update and the response.
AnalyzeBroadcast(r) ==
    /\ req[r].kind = "analyze"
    /\ req[r].pc = "saved"
    /\ events' = Append(events, GraphUpdated("New node created", req[r].node_id))
    /\ req' = [req EXCEPT ![r].pc = "done", ![r].status = "ok"]
    /\ UNCHANGED <<frame_store, files, used_ids>>
    /\ UNCHANGED outside_store

(***************************************************************************)
(* GET /api/graph: get_graph_data.                                         *)
(***************************************************************************)
\* The request arrives and runs SELECT * FROM nodes.
GraphReadNodes(r) ==
    /\ CanArrive(r)
    /\ req' = [req EXCEPT ![r] = [IdleRequest EXCEPT !.kind = "graph", !.pc = "read_edges",
                                                     !.got_nodes = nodes,
                                                     !.after = CommittedDeletes]]
    /\ UNCHANGED <<frame_store, files, events, used_ids>>
    /\ UNCHANGED outside_store

\* SELECT * FROM edges
GraphReadEdges(r) ==
    /\ req[r].kind = "graph"
    /\ req[r].pc = "read_edges"
    /\ req' = [req EXCEPT ![r].pc = "read_traffic", ![r].got_edges = edges]
    /\ UNCHANGED <<frame_store, files, events, used_ids>>
    /\ UNCHANGED outside_store

\* Mutant: the join hands out the edge's target as the node of the traffic.
TrafficJoinEdgesTarget(traffic_table, edge_table) ==
    UNION {{[id |-> t.id, edge_id |-> t.edge_id, source_node_id |-> e.target_node_id] :
               e \in {x \in edge_table : x.id = t.edge_id}} : t \in traffic_table}
    \cup
    {[id |-> t.id, edge_id |-> t.edge_id, source_node_id |-> NULL] :
        t \in {x \in traffic_table : \A e \in edge_table : e.id # x.edge_id}}

\* load_traffic_maps: SELECT ti.*, e.source_node_id ... FROM traffic_index ti
\* LEFT JOIN edges e ON ti.edge_id = e.id  (source_node_id is NULL without an edge).
TrafficJoinEdges(traffic_table, edge_table) ==
    UNION {{[id |-> t.id, edge_id |-> t.edge_id, source_node_id |-> e.source_node_id] :
               e \in {x \in edge_table : x.id = t.edge_id}} : t \in traffic_table}
    \cup
    {[id |-> t.id, edge_id |-> t.edge_id, source_node_id |-> NULL] :
        t \in {x \in traffic_table : \A e \in edge_table : e.id # x.edge_id}}

TrafficEntry(row) == [id |-> row.id, edgeId |-> row.edge_id]

\* traffic_by_edge.get(edge_id, []) and traffic_by_node.get(node_id, [])
traffic_by_edge(rows, edge_id) ==
    {TrafficEntry(row) : row \in {x \in rows : x.edge_id # NULL /\ x.edge_id = edge_id}}
traffic_by_node(rows, node_id) ==
    {TrafficEntry(row) :
        row \in {x \in rows : x.source_node_id # NULL /\ x.source_node_id = node_id}}

GraphReadTraffic(r) ==
    /\ req[r].kind = "graph"
    /\ req[r].pc = "read_traffic"
    /\ req' = [req EXCEPT ![r].pc = "read_parser",
                          ![r].got_traffic = TrafficJoinEdges(traffic_index, edges)]
    /\ UNCHANGED <<frame_store, files, events, used_ids>>
    /\ UNCHANGED outside_store

\* parser_by_node.get(node_id): the row's payload, NULL for None.
parser_by_node(parser_table, node_id) ==
    IF \E p \in parser_table : p.node_id = node_id
    THEN (CHOOSE p \in parser_table : p.node_id = node_id).parsed_content_list
    ELSE NULL

FormatNodes(got_nodes, got_traffic, parser_table) ==
    {[id |-> n.id,
      screenshot |-> n.screenshot_path,
      annotatedScreenshot |-> n.annotated_screenshot_path,
      traffic |-> traffic_by_node(got_traffic, n.id),
      parser |-> parser_by_node(parser_table, n.id)] : n \in got_nodes}

FormatEdges(got_edges, got_traffic) ==
    {[id |-> e.id, source |-> e.source_node_id, target |-> e.target_node_id,
      traffic |-> traffic_by_edge(got_traffic, e.id)] : e \in got_edges}

\* load_parser_outputs (SELECT * FROM parser_outputs), the formatting and the response.
GraphRespond(r) ==
    /\ req[r].kind = "graph"
    /\ req[r].pc = "read_parser"
    /\ req' = [req EXCEPT ![r].pc = "done", ![r].status = "ok",
                          ![r].body = [nodes |-> FormatNodes(req[r].got_nodes,
                                                             req[r].got_traffic,
                                                             parser_outputs),
                                       edges |-> FormatEdges(req[r].got_edges,
                                                             req[r].got_traffic)]]
    /\ UNCHANGED <<frame_store, files, events, used_ids>>
    /\ UNCHANGED outside_store

MatcherIdle ==
    /\ xml_str = MalformedDump
    /\ omni_json_list = <<>>
    /\ screen = <<4, 8>>
    /\ gpc = "idle"
    /\ screen_state = DefaultScreenState
    /\ adb_nodes = <<>>
    /\ final_elements = <<>>
    /\ uid_counter = 1
    /\ det_idx = 1
    /\ match_of = <<>>
    /\ output = NoOutput
    /\ prev_output = NoOutput
    /\ has_prev = FALSE

NextStore ==
    \E r \in Reqs :
        \/ DeleteLookup(r) \/ DeleteFindEdges(r) \/ DeleteCommit(r) \/ DeleteFinish(r)
        \/ AnalyzeCapture(r) \/ AnalyzeCommit(r) \/ AnalyzeBroadcast(r)
        \/ GraphReadNodes(r) \/ GraphReadEdges(r) \/ GraphReadTraffic(r)
        \/ GraphRespond(r)

InitSpecStore == InitStore /\ MatcherIdle /\ MapperIdle /\ IouIdle /\ LiveIdle /\ OthersIdle

SpecStore == InitSpecStore /\ [][NextStore]_vars

(***************************************************************************)
(* Part III.  traffic_mapper.py: the TrafficMapper.                        *)
(*                                                                         *)
(* The traffic source keeps a proxy log; every call of the mapper fetches  *)
(* the whole log again over HTTP, and the fetch succeeds (status 200 with  *)
(* the log), answers with another status, or raises a RequestException.    *)
(* The mapper holds no entries of its own and opens no database            *)
(* connection.  Timestamps are Unix times (positive); an entry may lack    *)
(* its 'time' key.                                                         *)
(***************************************************************************)
Times == 1..3
EdgeIds == {"e1", "e2"}
SourceOutcomes == {"200", "error_status", "request_exception"}

BurpRefId(i) == "b" \o ToString(i)
EntryTimes ==
    {[has_time |-> FALSE, time |-> 0]} \cup {[has_time |-> TRUE, time |-> t] : t \in Times}
ProxyLogs ==
    UNION {{[i \in 1..n |-> [id |-> BurpRefId(i), has_time |-> f[i].has_time,
                             time |-> f[i].time]] : f \in [1..n -> EntryTimes]} :
              n \in 0..MaxEntries}

\* entry.get('time', 0)
EntryTime(entry) == IF entry.has_time THEN entry.time ELSE 0

\* Mutant: a RequestException of the fetch is not caught.
fetch_proxy_history_uncaught(outcome, log, since_timestamp) ==
    IF outcome = "request_exception" THEN [raised |-> TRUE, list |-> <<>>]
    ELSE IF outcome # "200" THEN [raised |-> FALSE, list |-> <<>>]
    ELSE [raised |-> FALSE, list |-> log]

\* fetch_proxy_history: the log on status 200, filtered `if since_timestamp` (0 stands
\* for None, both falsy); [] on another status and on a RequestException.
fetch_proxy_history(outcome, log, since_timestamp) ==
    IF outcome = "request_exception" THEN [raised |-> FALSE, list |-> <<>>]
    ELSE IF outcome # "200" THEN [raised |-> FALSE, list |-> <<>>]
    ELSE [raised |-> FALSE,
          list |-> IF since_timestamp # 0
                   THEN SelectSeq(log, LAMBDA entry : EntryTime(entry) > since_timestamp)
                   ELSE log]

\* parse_traffic_entry: 'timestamp_start' is entry.get('time', time.time()); the clock
\* reading is kept as a symbol.
parse_traffic_entry(entry) ==
    [burp_ref_id |-> entry.id,
     timestamp_start |-> IF entry.has_time THEN entry.time ELSE "time.time()"]

\* Mutant: the window is open at its end.
InTimerangeEndExclusive(t, start_time, end_time) == start_time <= t /\ t < end_time

\* start_time <= entry.get('time', 0) <= end_time
InTimerange(t, start_time, end_time) == start_time <= t /\ t <= end_time

get_traffic_by_timerange(outcome, log, start_time, end_time) ==
    LET all_history == fetch_proxy_history(outcome, log, 0)
        selected == SelectSeq(all_history.list,
                              LAMBDA entry : InTimerange(EntryTime(entry), start_time, end_time))
    IN  [raised |-> all_history.raised,
         list |-> IF all_history.raised THEN <<>>
                  ELSE [i \in 1..Len(selected) |-> parse_traffic_entry(selected[i])]]

\* associate_traffic_with_edge: entry['edge_id'] = edge_id on each selected entry; the
\* list is returned, nothing else is done with it.
associate_traffic_with_edge(edge_id, outcome, log, start_time, end_time) ==
    LET traffic == get_traffic_by_timerange(outcome, log, start_time, end_time)
    IN  [raised |-> traffic.raised,
         list |-> [i \in 1..Len(traffic.list) |->
                      [burp_ref_id |-> traffic.list[i].burp_ref_id,
                       timestamp_start |-> traffic.list[i].timestamp_start,
                       edge_id |-> edge_id]]]

CallRecord(op, edge_id, start_time, end_time, outcome, returned) ==
    [op |-> op, edge_id |-> edge_id, start_time |-> start_time, end_time |-> end_time,
     source |-> outcome, raised |-> returned.raised, result |-> returned.list]

\* One call of get_traffic_by_timerange.
GetTrafficByTimerange ==
    /\ \E outcome \in SourceOutcomes, start_time \in Times, end_time \in Times :
          tm' = CallRecord("get_traffic_by_timerange", NULL, start_time, end_time, outcome,
                           get_traffic_by_timerange(outcome, proxy_history,
                                                    start_time, end_time))
    /\ UNCHANGED proxy_history
    /\ UNCHANGED outside_mapper

\* One call of associate_traffic_with_edge.
AssociateTrafficWithEdge ==
    /\ \E edge_id \in EdgeIds, outcome \in SourceOutcomes,
          start_time \in Times, end_time \in Times :
          tm' = CallRecord("associate_traffic_with_edge", edge_id,
                           start_time, end_time, outcome,
                           associate_traffic_with_edge(edge_id, outcome, proxy_history,
                                                       start_time, end_time))
    /\ UNCHANGED proxy_history
    /\ UNCHANGED outside_mapper

InitMapper ==
    /\ proxy_history \in ProxyLogs
    /\ tm = NoCall

\* The store the mapper runs beside: two nodes, an edge each way, no traffic stored.
StoreWithEdges ==
    /\ nodes = {NodeRow(n) : n \in SeedNodeIds}
    /\ parser_outputs = {ParserRow(n) : n \in SeedNodeIds}
    /\ files = UNION {{ScreenshotName(n), AnnotatedName(n)} : n \in SeedNodeIds}
    /\ edges = {[id |-> "e1", source_node_id |-> "n1", target_node_id |-> "n2"],
                [id |-> "e2", source_node_id |-> "n2", target_node_id |-> "n1"]}
    /\ traffic_index = {}
    /\ events = <<>>
    /\ used_ids = {}
    /\ req = [r \in Reqs |-> IdleRequest]

NextTraffic == GetTrafficByTimerange \/ AssociateTrafficWithEdge

InitSpecTraffic == InitMapper /\ MatcherIdle /\ StoreWithEdges /\ IouIdle /\ LiveIdle /\ OthersIdle

SpecTraffic == InitSpecTraffic /\ [][NextTraffic]_vars

(***************************************************************************)
(* Part IV.  calculate_iou on its own: the boxes handed to it are whatever *)
(* parse_bounds and the bbox conversion yield, that is any four integers:  *)
(* a box may have no area, and its second corner may lie left of or above  *)
(* its first.                                                              *)
(***************************************************************************)
Coords == 0..MaxCoord
Boxes == {<<x1, y1, x2, y2>> : x1 \in Coords, y1 \in Coords, x2 \in Coords, y2 \in Coords}

CalculateIou ==
    /\ iou_returned = NoIou
    /\ iou_returned' = calculate_iou(arg_boxA, arg_boxB)
    /\ UNCHANGED <<arg_boxA, arg_boxB>>
    /\ UNCHANGED outside_iou

InitIou ==
    /\ arg_boxA \in Boxes
    /\ arg_boxB \in Boxes
    /\ iou_returned = NoIou

NextIou == CalculateIou

InitSpecIou == InitIou /\ MatcherIdle /\ StoreEmpty /\ MapperIdle /\ LiveIdle /\ OthersIdle

SpecIou == InitSpecIou /\ [][NextIou]_vars

(***************************************************************************)
(* Part V.  main.py: the live-update broadcaster (ConnectionManager and    *)
(* broadcast_update).                                                      *)
(*                                                                         *)
(* The websocket endpoints run as coroutines on the server loop; a         *)
(* coroutine runs without interruption from one await to the next.         *)
(* manager.broadcast iterates the set active_connections and is suspended  *)
(* in every send_json; while it is suspended the endpoints may add to and  *)
(* discard from the set.  The set iterator raises RuntimeError ("Set       *)
(* changed size during iteration") when asked for the next element of a    *)
(* set whose size differs from the size at the start of the iteration; on  *)
(* a set changed at equal size it goes on, and which of the elements it    *)
(* still yields is not defined.                                            *)
(***************************************************************************)
Clients == 1..MaxClients

\* websocket_endpoint up to the end of manager.connect: accept, then add.
WsConnect(c) ==
    /\ ws[c] = "new"
    /\ ws' = [ws EXCEPT ![c] = "open"]
    /\ active_connections' = active_connections \cup {c}
    /\ UNCHANGED <<SERVER_LOOP, publisher_side, monitor_side>>
    /\ UNCHANGED outside_live

\* websocket_endpoint: receive_text raises, the handler calls manager.disconnect.
WsDisconnect(c) ==
    /\ ws[c] = "open"
    /\ ws' = [ws EXCEPT ![c] = "closed"]
    /\ active_connections' = active_connections \ {c}
    /\ UNCHANGED <<SERVER_LOOP, publisher_side, monitor_side>>
    /\ UNCHANGED outside_live

\* What next() of the set iterator does.
Yield(c) == [kind |-> "yield", client |-> c]
StopIteration == [kind |-> "StopIteration", client |-> NoClient]
SetChangedSize == [kind |-> "RuntimeError", client |-> NoClient]

\* The outcomes of next() for the iteration of call b over the set as it is now.
NextOutcomes(b, connections) ==
    IF Cardinality(connections) # Cardinality(b.at_start)
    THEN {SetChangedSize}
    ELSE LET unvisited == connections \ (b.delivered \cup b.failed)
         IN  {Yield(c) : c \in unvisited} \cup
             (IF unvisited = {} \/ connections # b.at_start THEN {StopIteration} ELSE {})

\* manager.broadcast from its first line to its first suspension: the early return
\* on an empty registry, else `disconnected = set()` and the first send.
BroadcastBegin(b, connections, first) ==
    IF connections = {}
    THEN [b EXCEPT !.pc = "done"]
    ELSE [b EXCEPT !.pc = "sending", !.at_start = connections, !.current = first]

\* The send in which the call is suspended returns (ok) or raises (caught: the
\* connection joins `disconnected`).
AfterSend(b, ok) ==
    IF ok THEN [b EXCEPT !.delivered = @ \cup {b.current}]
    ELSE [b EXCEPT !.failed = @ \cup {b.current}]

\* The call after next() gave `outcome`: the next send, the end of the loop, or the
\* RuntimeError leaving broadcast.
AfterNext(b, outcome) ==
    IF outcome.kind = "yield" THEN [b EXCEPT !.current = outcome.client]
    ELSE IF outcome.kind = "StopIteration" THEN [b EXCEPT !.pc = "done", !.current = NoClient]
    ELSE [b EXCEPT !.pc = "raised", !.current = NoClient]

\* `for connection in disconnected: self.disconnect(connection)`, reached only when
\* the loop ended.
RegistryAfter(b, outcome, connections) ==
    IF outcome.kind = "StopIteration" THEN connections \ b.failed ELSE connections

\* A send to a websocket whose endpoint is over raises.
SendOutcomes(c) == IF ws[c] = "open" THEN BOOLEAN ELSE {FALSE}

\* Mutant: broadcast_update waits for the delivery before it returns.
broadcast_update_joins(loop) ==
    [pub |-> "waiting",
     bc |-> [NoBroadcast EXCEPT !.pc = "scheduled",
                                !.ctx = IF loop = "running" THEN "loop" ELSE "thread"]]

\* broadcast_update: with a running SERVER_LOOP the coroutine is handed to it
\* (run_coroutine_threadsafe, the future is dropped); otherwise a daemon thread is
\* started that runs the coroutine on a loop of its own.  Either way it returns.
broadcast_update(loop) ==
    [pub |-> "returned",
     bc |-> [NoBroadcast EXCEPT !.pc = "scheduled",
                                !.ctx = IF loop = "running" THEN "loop" ELSE "thread"]]

BroadcastUpdate ==
    /\ pub = "calling"
    /\ pub' = broadcast_update(SERVER_LOOP).pub
    /\ bc' = broadcast_update(SERVER_LOOP).bc
    /\ UNCHANGED <<registry, SERVER_LOOP, monitor_side>>
    /\ UNCHANGED outside_live

\* The coroutine starts running, on the server loop or in the fallback thread.
BroadcastStart ==
    /\ bc.pc = "scheduled"
    /\ \E first \in (IF active_connections = {} THEN {NoClient} ELSE active_connections) :
          bc' = BroadcastBegin(bc, active_connections, first)
    /\ UNCHANGED <<registry, SERVER_LOOP, pub, monitor_side>>
    /\ UNCHANGED outside_live

\* The pending send ends, and the call runs to its next suspension or to its end.
BroadcastSend ==
    /\ bc.pc = "sending"
    /\ \E ok \in SendOutcomes(bc.current) :
          LET sent == AfterSend(bc, ok)
          IN  \E outcome \in NextOutcomes(sent, active_connections) :
                 /\ bc' = AfterNext(sent, outcome)
                 /\ active_connections' = RegistryAfter(sent, outcome, active_connections)
    /\ UNCHANGED <<ws, SERVER_LOOP, pub, monitor_side>>
    /\ UNCHANGED outside_live

\* The server after startup (SERVER_LOOP running) or without it (the startup handler
\* met a RuntimeError or never ran: SERVER_LOOP is None), no websocket connected yet,
\* and a capture or delete request about to call broadcast_update.
InitBroadcaster ==
    /\ active_connections = {}
    /\ ws = [c \in Clients |-> "new"]
    /\ SERVER_LOOP \in {"running", None}
    /\ pub = "calling"
    /\ bc = NoBroadcast

NextBroadcast ==
    \/ \E c \in Clients : WsConnect(c) \/ WsDisconnect(c)
    \/ BroadcastUpdate \/ BroadcastStart \/ BroadcastSend

InitSpecBroadcast ==
    InitBroadcaster /\ NoMonitor /\ MatcherIdle /\ StoreEmpty /\ MapperIdle /\ IouIdle
       /\ OthersIdle

SpecBroadcast == InitSpecBroadcast /\ [][NextBroadcast]_vars

(***************************************************************************)
(* Part VI.  main.py: the connection monitor (monitor_adb_connection) and  *)
(* its shutdown (_shutdown_tasks).                                         *)
(*                                                                         *)
(* The monitor is a task of the server loop.  From the test of its while   *)
(* loop to its next await it runs without interruption: the poll           *)
(* (adb.get_status() is a blocking call that catches its own errors), the  *)
(* comparison and, on a change, manager.broadcast up to its first send.    *)
(* It is suspended in the sends of that broadcast and in the wait between  *)
(* polls.  _shutdown_tasks sets shutdown_event and cancels the task in one *)
(* go; the cancellation reaches the task as a CancelledError at the await  *)
(* it is suspended in, which no `except Exception` catches.                *)
(***************************************************************************)
Statuses == {"connected", "disconnected"}

\* Mutant: the loop and its wait go on whatever the shutdown signal.
LoopGoesOnRegardless(signal) == TRUE

\* `while not shutdown_event.is_set()`, and the wait between polls running into its
\* timeout: wait_for(shutdown_event.wait(), timeout=2.5) returns at once when the
\* event is set.
LoopGoesOn(signal) == ~signal

\* `previous_status is not None and current_status != previous_status`
StatusChanged(previous_status, current_status) ==
    previous_status # None /\ current_status # previous_status

\* One pass of the loop from its test to its next suspension.
MonitorPoll ==
    /\ mon.pc \in {"start", "wait"}
    /\ LoopGoesOn(shutdown_event)
    /\ LET current_status == device_status
       IN  IF StatusChanged(mon.previous_status, current_status)
           THEN \E first \in (IF active_connections = {} THEN {NoClient}
                              ELSE active_connections) :
                   LET b == BroadcastBegin([NoBroadcast EXCEPT !.ctx = "loop"],
                                           active_connections, first)
                   IN  /\ mbc' = b
                       /\ mon' = [pc |-> IF b.pc = "done" THEN "wait" ELSE "sending",
                                  previous_status |-> IF b.pc = "done" THEN current_status
                                                      ELSE mon.previous_status,
                                  current_status |-> current_status,
                                  published |-> TRUE]
           ELSE /\ mbc' = NoBroadcast
                /\ mon' = [pc |-> "wait", previous_status |-> current_status,
                           current_status |-> current_status, published |-> FALSE]
    /\ polled_before' = mon.current_status
    /\ UNCHANGED <<registry, SERVER_LOOP, publisher_side, device_status, shutdown_event>>
    /\ UNCHANGED outside_live

\* The pending send of the monitor's broadcast ends.  When the broadcast returns,
\* `previous_status = current_status` follows; when it raises, the `except Exception`
\* of the loop body takes over and the assignment is skipped.  Then the wait.
MonitorSend ==
    /\ mon.pc = "sending"
    /\ ~shutdown_event
    /\ \E ok \in SendOutcomes(mbc.current) :
          LET sent == AfterSend(mbc, ok)
          IN  \E outcome \in NextOutcomes(sent, active_connections) :
                 /\ mbc' = AfterNext(sent, outcome)
                 /\ active_connections' = RegistryAfter(sent, outcome, active_connections)
                 /\ mon' = IF outcome.kind = "yield" THEN mon
                           ELSE IF outcome.kind = "StopIteration"
                           THEN [mon EXCEPT !.pc = "wait",
                                            !.previous_status = mon.current_status]
                           ELSE [mon EXCEPT !.pc = "wait"]
    /\ UNCHANGED <<ws, SERVER_LOOP, publisher_side, device_status, shutdown_event,
                   polled_before>>
    /\ UNCHANGED outside_live

\* The loop ends by itself: its test fails, or the wait returns and `break` follows.
MonitorStops ==
    /\ mon.pc \in {"start", "wait"}
    /\ ~LoopGoesOn(shutdown_event)
    /\ mon' = [mon EXCEPT !.pc = "done"]
    /\ UNCHANGED <<registry, SERVER_LOOP, publisher_side, mbc, device_status,
                   shutdown_event, polled_before>>
    /\ UNCHANGED outside_live

\* adb_monitor_task.cancel() takes effect at the await the task is suspended in.
MonitorCancelled ==
    /\ mon.pc \in {"start", "sending", "wait"}
    /\ shutdown_event
    /\ mon' = [mon EXCEPT !.pc = "done"]
    /\ UNCHANGED <<registry, SERVER_LOOP, publisher_side, mbc, device_status,
                   shutdown_event, polled_before>>
    /\ UNCHANGED outside_live

\* _shutdown_tasks: shutdown_event.set(), then the cancel of the task.
Shutdown ==
    /\ ~shutdown_event
    /\ shutdown_event' = TRUE
    /\ UNCHANGED <<registry, SERVER_LOOP, publisher_side, mon, mbc, device_status,
                   polled_before>>
    /\ UNCHANGED outside_live

\* The device is plugged in or pulled out.
DeviceChanges ==
    /\ \E status \in Statuses \ {device_status} : device_status' = status
    /\ UNCHANGED <<registry, SERVER_LOOP, publisher_side, mon, mbc, shutdown_event,
                   polled_before>>
    /\ UNCHANGED outside_live

\* The server after a startup that went through: SERVER_LOOP set, shutdown_event
\* cleared, the monitor task created and not yet run; no websocket connected yet.
InitMonitor ==
    /\ active_connections = {}
    /\ ws = [c \in Clients |-> "new"]
    /\ SERVER_LOOP = "running"
    /\ mon = [pc |-> "start", previous_status |-> None, current_status |-> None,
              published |-> FALSE]
    /\ mbc = NoBroadcast
    /\ device_status \in Statuses
    /\ shutdown_event = FALSE
    /\ polled_before = None

MonitorStep == MonitorPoll \/ MonitorSend \/ MonitorStops \/ MonitorCancelled

NextMonitor ==
    \/ \E c \in Clients : WsConnect(c) \/ WsDisconnect(c)
    \/ MonitorPoll \/ MonitorSend \/ MonitorStops \/ MonitorCancelled
    \/ Shutdown \/ DeviceChanges

InitSpecMonitor ==
    InitMonitor /\ NoPublisher /\ MatcherIdle /\ StoreEmpty /\ MapperIdle /\ IouIdle
       /\ OthersIdle

SpecMonitor == InitSpecMonitor /\ [][NextMonitor]_vars

\* The server loop runs every task that is ready to run: a monitor step that stays
\* possible is taken.
SpecMonitorFair == SpecMonitor /\ WF_vars(MonitorStep)

(***************************************************************************)
(* Part VII.  main.py: analyze_screen with the data it handles.            *)
(*                                                                         *)
(* One capture that goes through (its failures are in Part II), followed   *)
(* by the values themselves: what the vision engine returned for the       *)
(* screenshot (omni_json_list), what is serialized into the parser_outputs *)
(* row, what the response carries and what load_parser_outputs decodes for *)
(* a later graph query.  xml_str is the accessibility dump of the screen   *)
(* that was captured and screen its size.                                  *)
(***************************************************************************)
\* json.dumps of a list or dict of strings, numbers and booleans: the JSON text,
\* written as the value it denotes.
json_dumps(value) == [json |-> value]

\* json.loads of such a text.
json_loads(text) == text.json

\* What vision.analyze_image returns for the screenshot: the detections as
\* parsed_content_list and their normalized boxes keyed by position.
AnalysisResult(detections) ==
    [parsed_content_list |-> detections,
     label_coordinates |-> [i \in 1..Len(detections) |-> detections[i].bbox]]

\* The parser_outputs row of the INSERT: both lists go through json.dumps.
ParserOutputRow(node_id, parsed_content_list, label_coordinates) ==
    [node_id |-> node_id,
     parsed_content_list |-> json_dumps(parsed_content_list),
     label_coordinates |-> json_dumps(label_coordinates)]

\* Steps 1 to 3: the id is drawn, the screenshot taken, and vision.analyze_image
\* returns; parsed_content_list and label_coordinates are read from its result.
CaptureAnalyze ==
    /\ cap.pc = "idle"
    /\ \E node_id \in {Uuid4(used_ids)} :
         /\ used_ids' = used_ids \cup {node_id}
         /\ files' = files \cup {ScreenshotName(node_id), AnnotatedName(node_id)}
         /\ cap' = [cap EXCEPT !.pc = "save", !.node_id = node_id,
                               !.analysis_result = AnalysisResult(omni_json_list)]
    /\ UNCHANGED <<xml_str, omni_json_list, screen, nodes, parser_outputs, events>>
    /\ UNCHANGED outside_capture

\* Step 4: INSERT INTO nodes, INSERT INTO parser_outputs, conn.commit().
CapturePersist ==
    /\ cap.pc = "save"
    /\ nodes' = nodes \cup {NodeRow(cap.node_id)}
    /\ parser_outputs' = parser_outputs \cup
          {ParserOutputRow(cap.node_id, cap.analysis_result.parsed_content_list,
                           cap.analysis_result.label_coordinates)}
    /\ cap' = [cap EXCEPT !.pc = "saved"]
    /\ UNCHANGED <<xml_str, omni_json_list, screen, files, events, used_ids>>
    /\ UNCHANGED outside_capture

\* Steps 5 and 6: broadcast_update and the response.
CaptureRespond ==
    /\ cap.pc = "saved"
    /\ events' = Append(events, GraphUpdated("New node created", cap.node_id))
    /\ cap' = [cap EXCEPT !.pc = "done",
                          !.response = cap.analysis_result.parsed_content_list]
    /\ UNCHANGED <<xml_str, omni_json_list, screen, nodes, parser_outputs, files, used_ids>>
    /\ UNCHANGED outside_capture

\* load_parser_outputs: per row, `json.loads(raw) if raw else []` (and {} for the
\* coordinates); a JSON text is never the empty string.
load_parser_outputs(parser_table) ==
    [node_id \in {p.node_id : p \in parser_table} |->
        LET row == CHOOSE p \in parser_table : p.node_id = node_id
        IN  [parsedContentList |-> json_loads(row.parsed_content_list),
             labelCoordinates |-> json_loads(row.label_coordinates)]]

\* A later GET /api/graph: the "parser" entry it returns for the captured node,
\* parser_by_node.get(node["id"]).
CaptureGraphQuery ==
    /\ cap.pc = "done"
    /\ LET parser_by_node_id == load_parser_outputs(parser_outputs)
       IN  cap' = [cap EXCEPT !.pc = "queried",
                              !.loaded = IF cap.node_id \in DOMAIN parser_by_node_id
                                         THEN parser_by_node_id[cap.node_id] ELSE NULL]
    /\ UNCHANGED <<xml_str, omni_json_list, screen, nodes, parser_outputs, files, events,
                   used_ids>>
    /\ UNCHANGED outside_capture

\* The device shows any screen of the catalogue; the store is empty.
InitCapture ==
    /\ xml_str \in Dumps
    /\ omni_json_list \in DetectionLists
    /\ screen \in ScreenSizes
    /\ gpc = "idle"
    /\ screen_state = DefaultScreenState
    /\ adb_nodes = <<>>
    /\ final_elements = <<>>
    /\ uid_counter = 1
    /\ det_idx = 1
    /\ match_of = <<>>
    /\ output = NoOutput
    /\ prev_output = NoOutput
    /\ has_prev = FALSE
    /\ cap = NoCapture

NextCapture == CaptureAnalyze \/ CapturePersist \/ CaptureRespond \/ CaptureGraphQuery

InitSpecCapture ==
    InitCapture /\ StoreEmpty /\ MapperIdle /\ IouIdle /\ LiveIdle /\ SingletonsIdle

SpecCapture == InitSpecCapture /\ [][NextCapture]_vars

(***************************************************************************)
(* Part VIII.  vision_engine.py, adb_controller.py, traffic_mapper.py:     *)
(* the lazily created singletons.                                          *)
(*                                                                         *)
(* The handlers declared with `def` run on the worker threads of the       *)
(* server, the coroutines on the loop thread, and each of them calls the   *)
(* accessors; a thread can be preempted between any two statements.  Each  *)
(* thread of the model makes one call.  A step is one statement, and a     *)
(* `with lock:` block is left in the step of its last statement.  An       *)
(* object is named by its class and its rank among the instances of the    *)
(* class whose __init__ has run.                                           *)
(***************************************************************************)
Threads == 1..MaxThreads

Obj(class, rank) == class \o "@" \o ToString(rank)

IdleThread ==
    [op |-> "none", pc |-> "idle", instance |-> None, value |-> None, got |-> None,
     old |-> None, after |-> {}]

VisionCalls == {"get_vision_engine", "VisionEngine"}
ResetCalls == {"reset_vision_engine"}
AccessorCalls == {"get_adb_controller", "get_traffic_mapper"}

\* The first statement of each callable.
EntryPc(op) ==
    CASE op = "get_vision_engine" -> "gve_check"
      [] op = "VisionEngine" -> "meta_check"
      [] op = "reset_vision_engine" -> "reset_lock"
      [] OTHER -> "acc_check"

\* Calls of reset_vision_engine that have returned.
ResetsDone == {r \in Threads : th[r].op = "reset_vision_engine" /\ th[r].pc = "done"}

\* A thread enters one of the callables.
Call(t, op) ==
    /\ th[t].pc = "idle"
    /\ th' = [th EXCEPT ![t] = [IdleThread EXCEPT !.op = op, !.pc = EntryPc(op),
                                                  !.after = ResetsDone]]
    /\ UNCHANGED <<vision_globals, accessor_globals, objects>>
    /\ UNCHANGED outside_singletons

(***************************************************************************)
(* get_vision_engine.                                                      *)
(***************************************************************************)
\* `if _vision_engine_instance is None:` outside the lock
GveCheck(t) ==
    /\ th[t].pc = "gve_check"
    /\ th' = [th EXCEPT ![t].pc = IF _vision_engine_instance = None THEN "gve_lock"
                                  ELSE "gve_return"]
    /\ UNCHANGED <<vision_globals, accessor_globals, objects>>
    /\ UNCHANGED outside_singletons

\* `with _vision_engine_lock:` the lock is acquired
GveLock(t) ==
    /\ th[t].pc = "gve_lock"
    /\ _vision_engine_lock = NoThread
    /\ _vision_engine_lock' = t
    /\ th' = [th EXCEPT ![t].pc = "gve_recheck"]
    /\ UNCHANGED <<_vision_engine_instance, _instances, _lock, accessor_globals, objects>>
    /\ UNCHANGED outside_singletons

\* `if _vision_engine_instance is None:` under the lock; VisionEngine() is called,
\* or the block is left.
GveRecheck(t) ==
    /\ th[t].pc = "gve_recheck"
    /\ IF _vision_engine_instance = None
       THEN /\ th' = [th EXCEPT ![t].pc = "meta_check"]
            /\ UNCHANGED _vision_engine_lock
       ELSE /\ th' = [th EXCEPT ![t].pc = "gve_return"]
            /\ _vision_engine_lock' = NoThread
    /\ UNCHANGED <<_vision_engine_instance, _instances, _lock, accessor_globals, objects>>
    /\ UNCHANGED outside_singletons

\* `_vision_engine_instance = VisionEngine()` once the call has returned; the block
\* is left.
GveAssign(t) ==
    /\ th[t].pc = "gve_assign"
    /\ _vision_engine_instance' = th[t].value
    /\ _vision_engine_lock' = NoThread
    /\ th' = [th EXCEPT ![t].pc = "gve_return"]
    /\ UNCHANGED <<_instances, _lock, accessor_globals, objects>>
    /\ UNCHANGED outside_singletons

\* `return _vision_engine_instance`
GveReturn(t) ==
    /\ th[t].pc = "gve_return"
    /\ th' = [th EXCEPT ![t].pc = "done", ![t].got = _vision_engine_instance]
    /\ UNCHANGED <<vision_globals, accessor_globals, objects>>
    /\ UNCHANGED outside_singletons

(***************************************************************************)
(* VisionEngineMeta.__call__.                                              *)
(***************************************************************************)
\* Mutant: no second test under the lock.
NotInInstancesUnchecked(instances) == TRUE

\* `if cls not in cls._instances:` under the lock
NotInInstances(instances) == instances = None

\* `if cls not in cls._instances:` outside the lock
MetaCheck(t) ==
    /\ th[t].pc = "meta_check"
    /\ th' = [th EXCEPT ![t].pc = IF _instances = None THEN "meta_lock" ELSE "meta_return"]
    /\ UNCHANGED <<vision_globals, accessor_globals, objects>>
    /\ UNCHANGED outside_singletons

\* `with cls._lock:` the lock is acquired
MetaLock(t) ==
    /\ th[t].pc = "meta_lock"
    /\ _lock = NoThread
    /\ _lock' = t
    /\ th' = [th EXCEPT ![t].pc = "meta_recheck"]
    /\ UNCHANGED <<_vision_engine_instance, _vision_engine_lock, _instances,
                   accessor_globals, objects>>
    /\ UNCHANGED outside_singletons

\* The double check; the instance is about to be built, or the block is left.
MetaRecheck(t) ==
    /\ th[t].pc = "meta_recheck"
    /\ IF NotInInstances(_instances)
       THEN /\ th' = [th EXCEPT ![t].pc = "meta_init"]
            /\ UNCHANGED _lock
       ELSE /\ th' = [th EXCEPT ![t].pc = "meta_return"]
            /\ _lock' = NoThread
    /\ UNCHANGED <<_vision_engine_instance, _vision_engine_lock, _instances,
                   accessor_globals, objects>>
    /\ UNCHANGED outside_singletons

\* `instance = super().__call__(*args, **kwargs)`: VisionEngine.__init__ runs (a
\* failure to load the models is caught inside it and kept in the instance).
MetaInit(t) ==
    /\ th[t].pc = "meta_init"
    /\ objects' = [objects EXCEPT !.VisionEngine = @ + 1]
    /\ th' = [th EXCEPT ![t].pc = "meta_store",
                        ![t].instance = Obj("VisionEngine", objects.VisionEngine + 1)]
    /\ UNCHANGED <<vision_globals, accessor_globals>>
    /\ UNCHANGED outside_singletons

\* `cls._instances[cls] = instance`; the block is left.
MetaStore(t) ==
    /\ th[t].pc = "meta_store"
    /\ _instances' = th[t].instance
    /\ _lock' = NoThread
    /\ th' = [th EXCEPT ![t].pc = "meta_return"]
    /\ UNCHANGED <<_vision_engine_instance, _vision_engine_lock, accessor_globals, objects>>
    /\ UNCHANGED outside_singletons

\* `return cls._instances[cls]`, to the caller of VisionEngine() or into
\* get_vision_engine.
MetaReturn(t) ==
    /\ th[t].pc = "meta_return"
    /\ th' = IF th[t].op = "VisionEngine"
             THEN [th EXCEPT ![t].pc = "done", ![t].got = _instances]
             ELSE [th EXCEPT ![t].pc = "gve_assign", ![t].value = _instances]
    /\ UNCHANGED <<vision_globals, accessor_globals, objects>>
    /\ UNCHANGED outside_singletons

(***************************************************************************)
(* reset_vision_engine.                                                    *)
(***************************************************************************)
\* `with _vision_engine_lock:` the lock is acquired
ResetLock(t) ==
    /\ th[t].pc = "reset_lock"
    /\ _vision_engine_lock = NoThread
    /\ _vision_engine_lock' = t
    /\ th' = [th EXCEPT ![t].pc = "reset_body"]
    /\ UNCHANGED <<_vision_engine_instance, _instances, _lock, accessor_globals, objects>>
    /\ UNCHANGED outside_singletons

\* `if _vision_engine_instance is not None:` the cleanup and
\* `_vision_engine_instance = None`; the block is left.  VisionEngineMeta._instances
\* is not touched.
ResetBody(t) ==
    /\ th[t].pc = "reset_body"
    /\ _vision_engine_instance' = None
    /\ _vision_engine_lock' = NoThread
    /\ th' = [th EXCEPT ![t].pc = "done", ![t].old = _vision_engine_instance]
    /\ UNCHANGED <<_instances, _lock, accessor_globals, objects>>
    /\ UNCHANGED outside_singletons

(***************************************************************************)
(* get_adb_controller and get_traffic_mapper.                              *)
(***************************************************************************)
ClassOf(op) == IF op = "get_adb_controller" THEN "ADBController" ELSE "TrafficMapper"

\* The module global the accessor reads.
Global(op) == IF op = "get_adb_controller" THEN _adb_controller ELSE _traffic_mapper

\* `if _adb_controller is None:` / `if _traffic_mapper is None:`
AccCheck(t) ==
    /\ th[t].pc = "acc_check"
    /\ th' = [th EXCEPT ![t].pc = IF Global(th[t].op) = None THEN "acc_construct"
                                  ELSE "acc_return"]
    /\ UNCHANGED <<vision_globals, accessor_globals, objects>>
    /\ UNCHANGED outside_singletons

\* `ADBController()` / `TrafficMapper(burp_api_url)`: the constructor runs; the
\* TrafficMapper's waits for an HTTP answer of the proxy.
AccConstruct(t) ==
    /\ th[t].pc = "acc_construct"
    /\ LET class == ClassOf(th[t].op)
       IN  /\ objects' = [objects EXCEPT ![class] = @ + 1]
           /\ th' = [th EXCEPT ![t].pc = "acc_assign",
                               ![t].instance = Obj(class, objects[class] + 1)]
    /\ UNCHANGED <<vision_globals, accessor_globals>>
    /\ UNCHANGED outside_singletons

\* The assignment to the global.
AccAssign(t) ==
    /\ th[t].pc = "acc_assign"
    /\ IF th[t].op = "get_adb_controller"
       THEN _adb_controller' = th[t].instance /\ UNCHANGED _traffic_mapper
       ELSE _traffic_mapper' = th[t].instance /\ UNCHANGED _adb_controller
    /\ th' = [th EXCEPT ![t].pc = "acc_return"]
    /\ UNCHANGED <<vision_globals, objects>>
    /\ UNCHANGED outside_singletons

\* `return _adb_controller` / `return _traffic_mapper`
AccReturn(t) ==
    /\ th[t].pc = "acc_return"
    /\ th' = [th EXCEPT ![t].pc = "done", ![t].got = Global(th[t].op)]
    /\ UNCHANGED <<vision_globals, accessor_globals, objects>>
    /\ UNCHANGED outside_singletons

\* A fresh process with its threads.
InitSingletons ==
    /\ SingletonsUnset
    /\ th = [t \in Threads |-> IdleThread]

\* A thread inside get_vision_engine or VisionEngine() takes its next step.
VisionStep(t) ==
    \/ GveCheck(t) \/ GveLock(t) \/ GveRecheck(t) \/ GveAssign(t) \/ GveReturn(t)
    \/ MetaCheck(t) \/ MetaLock(t) \/ MetaRecheck(t) \/ MetaInit(t) \/ MetaStore(t)
    \/ MetaReturn(t)

VisionProgress == \E t \in Threads : VisionStep(t)

NextVisionEngine ==
    \E t \in Threads :
        \/ \E op \in VisionCalls : Call(t, op)
        \/ GveCheck(t) \/ GveLock(t) \/ GveRecheck(t) \/ GveAssign(t) \/ GveReturn(t)
        \/ MetaCheck(t) \/ MetaLock(t) \/ MetaRecheck(t) \/ MetaInit(t) \/ MetaStore(t)
        \/ MetaReturn(t)

NextVisionReset ==
    \E t \in Threads :
        \/ \E op \in VisionCalls \cup ResetCalls : Call(t, op)
        \/ GveCheck(t) \/ GveLock(t) \/ GveRecheck(t) \/ GveAssign(t) \/ GveReturn(t)
        \/ MetaCheck(t) \/ MetaLock(t) \/ MetaRecheck(t) \/ MetaInit(t) \/ MetaStore(t)
        \/ MetaReturn(t)
        \/ ResetLock(t) \/ ResetBody(t)

NextAccessors ==
    \E t \in Threads :
        \/ \E op \in AccessorCalls : Call(t, op)
        \/ AccCheck(t) \/ AccConstruct(t) \/ AccAssign(t) \/ AccReturn(t)

InitSpecSingletons ==
    InitSingletons /\ MatcherIdle /\ StoreEmpty /\ MapperIdle /\ IouIdle /\ LiveIdle
       /\ CaptureIdle

SpecVisionEngine == InitSpecSingletons /\ [][NextVisionEngine]_vars

SpecVisionReset == InitSpecSingletons /\ [][NextVisionReset]_vars

SpecAccessors == InitSpecSingletons /\ [][NextAccessors]_vars

(***************************************************************************)
(* Properties of the reconciliation pass.                                  *)
(***************************************************************************)
Emitted == 1..Len(final_elements)
Pool == 1..Len(adb_nodes)

\* Pool nodes consumed by the detections before the k-th, and those still free for it.
TakenBefore(k) == {match_of[i] : i \in 1..(k - 1)} \ {0}
FreeFor(k) == Pool \ TakenBefore(k)

\* IoU of the k-th emitted element with pool node j.
IouOf(k, j) == calculate_iou(final_elements[k].bounds, adb_nodes[j].bounds)

AboveThreshold(q) == q[1] * 10 > 3 * q[2]

IsEnriched(k) == final_elements[k].source = "vision_enriched"

\* C1: N detections give exactly N elements; the i-th element is built from the
\* i-th detection and has uid i, matched or not (while the loop runs, the elements
\* emitted so far are those of the detections processed so far).
C1_OneElementPerDetection ==
    /\ gpc \in {"loop", "done"} =>
          /\ Len(final_elements) <= Len(omni_json_list)
          /\ Len(final_elements) = det_idx - 1
          /\ \A i \in Emitted :
                /\ final_elements[i].uid = i
                /\ final_elements[i].type = omni_json_list[i].type
                /\ final_elements[i].bounds =
                      convert_omni_bbox(omni_json_list[i].bbox, screen[1], screen[2])
    /\ gpc = "done" =>
          /\ Len(output.elements) = Len(omni_json_list)
          /\ \A i \in 1..Len(output.elements) : output.elements[i].uid = i

\* C1 witness: a finished pass over two detections, the first matched, the second not.
C1_Witness ==
    /\ gpc = "done"
    /\ Len(output.elements) = 2
    /\ output.elements[1].source = "vision_enriched"
    /\ output.elements[2].source = "vision_only"

\* C2: the map from enriched elements to their matched pool node is injective, a
\* consumed node is flagged matched, and at most min(N, M) elements are enriched.
C2_MatchingExclusive ==
    gpc \in {"loop", "done"} =>
      /\ \A i \in Emitted : IsEnriched(i) <=> match_of[i] # 0
      /\ \A i \in Emitted : match_of[i] # 0 =>
            /\ match_of[i] \in Pool
            /\ adb_nodes[match_of[i]].matched
      /\ \A i, j \in Emitted : (i # j /\ match_of[i] # 0) => match_of[i] # match_of[j]
      /\ Cardinality({i \in Emitted : IsEnriched(i)})
            <= Min2(Len(omni_json_list), Len(adb_nodes))

\* C2 witness: two detections with the same pixel bounds, both enriched, from two
\* different pool nodes.
C2_Witness ==
    /\ gpc = "done"
    /\ Len(final_elements) = 2
    /\ final_elements[1].bounds = final_elements[2].bounds
    /\ match_of[1] # 0 /\ match_of[2] # 0 /\ match_of[1] # match_of[2]

\* C3: the matched node is the first, in pool order, of the still-unmatched nodes
\* of maximal IoU, whenever that maximum is strictly above 0.3.
C3_FirstBestMatch ==
    gpc \in {"loop", "done"} =>
      \A k \in Emitted :
        LET m == match_of[k]
        IN  /\ (\E j \in FreeFor(k) : AboveThreshold(IouOf(k, j))) => m # 0
            /\ m # 0 =>
                  /\ m \in FreeFor(k)
                  /\ AboveThreshold(IouOf(k, m))
                  /\ \A j \in FreeFor(k) : ~RatGt(IouOf(k, j), IouOf(k, m))
                  /\ \A j \in FreeFor(k) : j < m => RatGt(IouOf(k, m), IouOf(k, j))

\* C3 witness: an element matched to a node while a later free node has the same IoU.
C3_Witness ==
    /\ gpc = "done"
    /\ \E k \in Emitted :
          /\ match_of[k] # 0
          /\ \E j \in FreeFor(k) :
                /\ j > match_of[k]
                /\ adb_nodes[j].bounds # adb_nodes[match_of[k]].bounds
                /\ RatEq(IouOf(k, j), IouOf(k, match_of[k]))

\* The flagged pool nodes are exactly the nodes some emitted element matched.
ConsumedAreMatches ==
    {j \in Pool : adb_nodes[j].matched} = {match_of[i] : i \in Emitted} \ {0}

\* C4: a detection whose IoU with every unmatched node is at most 0.3 is emitted as
\* vision_only with the vision content and no adb_attributes, and consumes no node.
C4_BelowThresholdVisionOnly ==
    gpc \in {"loop", "done"} =>
      /\ ConsumedAreMatches
      /\ \A k \in Emitted :
            (\A j \in FreeFor(k) : ~AboveThreshold(IouOf(k, j))) =>
               /\ match_of[k] = 0
               /\ final_elements[k].source = "vision_only"
               /\ final_elements[k].content = omni_json_list[k].content
               /\ "adb_attributes" \notin DOMAIN final_elements[k]

\* C4 witness: a vision_only element that has a free node at IoU exactly 0.3.
C4_Witness ==
    /\ gpc = "done"
    /\ \E k \in Emitted :
          /\ final_elements[k].source = "vision_only"
          /\ \E j \in FreeFor(k) : RatEq(IouOf(k, j), <<3, 10>>)

\* The pool nodes whose text or description a harvest inside node m collects.
HarvestedFrom(m) ==
    {j \in Pool : /\ j # m
                  /\ adb_nodes[m].bounds[1] <= adb_nodes[j].bounds[1]
                  /\ adb_nodes[m].bounds[2] <= adb_nodes[j].bounds[2]
                  /\ adb_nodes[j].bounds[3] <= adb_nodes[m].bounds[3]
                  /\ adb_nodes[j].bounds[4] <= adb_nodes[m].bounds[4]
                  /\ (adb_nodes[j].text # "" \/ adb_nodes[j].description # "")}

TextOrDesc(j) ==
    IF adb_nodes[j].text # "" THEN adb_nodes[j].text ELSE adb_nodes[j].description

\* The texts of the nodes of S, single-space separated, in pool order.
RECURSIVE JoinInPoolOrder(_)
JoinInPoolOrder(S) ==
    IF S = {} THEN ""
    ELSE LET j == CHOOSE x \in S : \A y \in S : x <= y
         IN  IF S = {j} THEN TextOrDesc(j)
             ELSE TextOrDesc(j) \o " " \o JoinInPoolOrder(S \ {j})

\* C5: content priority of a matched detection: the node's text, else its
\* description, else the harvested text if there is any, else the vision content.
C5_ContentPriority ==
    gpc \in {"loop", "done"} =>
      \A k \in Emitted : match_of[k] # 0 =>
        LET n == adb_nodes[match_of[k]]
            content == final_elements[k].content
        IN  /\ n.text # "" => content = n.text
            /\ (n.text = "" /\ n.description # "") => content = n.description
            /\ (n.text = "" /\ n.description = "" /\ HarvestedFrom(match_of[k]) # {}) =>
                   /\ content # ""
                   /\ content = JoinInPoolOrder(HarvestedFrom(match_of[k]))
            /\ (n.text = "" /\ n.description = "" /\ HarvestedFrom(match_of[k]) = {}) =>
                   content = omni_json_list[k].content

\* C5 witness: the node's text corrects a different OCR content although the node
\* also has a description.
C5_Witness ==
    /\ gpc = "done"
    /\ \E k \in Emitted :
          /\ match_of[k] # 0
          /\ adb_nodes[match_of[k]].text # ""
          /\ adb_nodes[match_of[k]].description # ""
          /\ omni_json_list[k].content # adb_nodes[match_of[k]].text
          /\ final_elements[k].content = adb_nodes[match_of[k]].text

\* C6: for a matched node with neither text nor description, the content is the
\* single-space join, in pool order, of the text-or-description of every other pool
\* node contained in it (edges may coincide), matched or not.
C6_HarvestContainedTexts ==
    gpc \in {"loop", "done"} =>
      \A k \in Emitted :
        LET m == match_of[k]
        IN  (m # 0 /\ adb_nodes[m].text = "" /\ adb_nodes[m].description = ""
                  /\ HarvestedFrom(m) # {}) =>
               final_elements[k].content = JoinInPoolOrder(HarvestedFrom(m))

\* C6 witness: a harvest of two nodes, one of them consumed by an earlier detection
\* and both touching an edge of the matched node.
C6_Witness ==
    /\ gpc = "done"
    /\ \E k \in Emitted :
          LET m == match_of[k]
          IN  /\ m # 0
              /\ adb_nodes[m].text = "" /\ adb_nodes[m].description = ""
              /\ Cardinality(HarvestedFrom(m)) = 2
              /\ HarvestedFrom(m) \cap TakenBefore(k) # {}
              /\ \A j \in HarvestedFrom(m) : adb_nodes[j].bounds[1] = adb_nodes[m].bounds[1]
              /\ final_elements[k].content = "Save Play"

BundleKeys == {"text", "resource_id", "content_desc", "class", "clickable",
               "scrollable", "editable", "checked", "selected", "enabled"}

\* C7: every vision_enriched element carries a bundle with the matched node's raw
\* text, resourceId, description, class and all six interaction flags.
C7_BundleHasSixFlags ==
    gpc \in {"loop", "done"} =>
      \A k \in Emitted : IsEnriched(k) =>
        LET n == adb_nodes[match_of[k]]
            b == final_elements[k].adb_attributes
        IN  /\ BundleKeys \subseteq DOMAIN b
            /\ b.text = n.text
            /\ b.resource_id = n.resource_id
            /\ b.content_desc = n.description
            /\ b.class = n.class
            /\ b.clickable = n.actions.clickable
            /\ b.scrollable = n.actions.scrollable
            /\ b.editable = n.actions.editable
            /\ b.checked = n.actions.checked
            /\ b.selected = n.actions.selected
            /\ b.enabled = n.actions.enabled

\* C8: a second call on the same dump, detection list and screen size returns what
\* the first call returned.
C8_Deterministic ==
    (gpc = "done" /\ has_prev) => output = prev_output

\* C8 witness: a second call has returned, the first one having consumed pool nodes.
C8_Witness ==
    /\ gpc = "done"
    /\ has_prev
    /\ \E k \in 1..Len(prev_output.elements) :
          prev_output.elements[k].source = "vision_enriched"

(***************************************************************************)
(* Properties of node deletion.                                            *)
(***************************************************************************)
Touches(e, node_id) == e.source_node_id = node_id \/ e.target_node_id = node_id

\* Every traffic entry listed anywhere in a graph response.
ListedTraffic(body) ==
    UNION {n.traffic : n \in body.nodes} \cup UNION {e.traffic : e \in body.edges}

\* After the deletion of a node committed, the tables hold neither the node, its
\* ParserOutput, an edge touching it nor traffic of the edges found for it, and a
\* graph query that began afterwards returns none of them.
DeletedIsGone ==
    \A d \in CommittedDeletes :
        LET n == req[d].node_id
        IN  /\ n \notin Ids(nodes)
            /\ \A p \in parser_outputs : p.node_id # n
            /\ \A e \in edges : ~Touches(e, n)
            /\ \A t \in traffic_index : t.edge_id \notin req[d].edge_ids
            /\ \A g \in Reqs :
                  (req[g].kind = "graph" /\ req[g].pc = "done" /\ d \in req[g].after) =>
                     /\ n \notin Ids(req[g].body.nodes)
                     /\ \A e \in req[g].body.edges :
                           e.source # n /\ e.target # n /\ e.id \notin req[d].edge_ids
                     /\ \A t \in ListedTraffic(req[g].body) :
                           t.edgeId \notin req[d].edge_ids

\* The commit of a deletion removes exactly the node, its ParserOutput, the edges
\* touching it and the traffic of those edges; all other rows stay as they were.
DeleteRemovesExactly ==
    \A d \in Reqs :
        (req[d].kind = "delete" /\ req[d].pc = "delete_rows" /\ req'[d].pc = "committed") =>
           LET n == req[d].node_id
               gone == {e \in edges : Touches(e, n)}
           IN  /\ nodes' = {x \in nodes : x.id # n}
               /\ parser_outputs' = {x \in parser_outputs : x.node_id # n}
               /\ edges' = edges \ gone
               /\ traffic_index' = {t \in traffic_index : t.edge_id \notin Ids(gone)}

\* C9: a successful deletion of node n leaves no node n, no ParserOutput of n, no
\* edge from or to n and no traffic of those edges, in the store and in a later
\* graph query, and changes nothing else.
C9_DeleteCascade == []DeletedIsGone /\ [][DeleteRemovesExactly]_vars

\* C9 witness: a deletion that found edges has committed, one seeded traffic row
\* went with it, and a graph query begun afterwards still lists the other edge
\* with its traffic.
C9_Witness ==
    \E d \in CommittedDeletes, g \in Reqs :
        /\ req[d].edge_ids # {}
        /\ req[g].kind = "graph" /\ req[g].pc = "done" /\ d \in req[g].after
        /\ Cardinality(traffic_index) = 1
        /\ \E e \in req[g].body.edges : e.traffic # {}
        /\ req[g].body.nodes # {}

\* A delete request for an id with no node row ends not-found, with every table, the
\* files and the published events as they were.
MissingIsNotFound ==
    \A r \in Reqs :
        (req[r].pc = "idle" /\ req'[r].kind = "delete" /\ req'[r].node_id \notin Ids(nodes)) =>
           /\ req'[r].pc = "not_found"
           /\ req'[r].status = "404"
           /\ UNCHANGED <<nodes, edges, traffic_index, parser_outputs, files, events>>

\* A request that ended not-found does nothing more.
NotFoundIsFinal ==
    \A r \in Reqs : req[r].pc = "not_found" => req'[r] = req[r]

\* C10: deleting an id that is not in the store fails with not-found, changes no
\* table, deletes no file and publishes no graph_updated event.
C10_DeleteMissingNotFound == [][MissingIsNotFound /\ NotFoundIsFinal]_vars

\* C10 witness: a delete of an id that never existed has ended not-found while the
\* store holds nodes, and another request has since published an event.
C10_Witness ==
    \E r \in Reqs :
        /\ req[r].pc = "not_found"
        /\ req[r].status = "404"
        /\ req[r].node_id \in MissingIds
        /\ nodes # {}
        /\ events # <<>>

(***************************************************************************)
(* Properties of the store under concurrent requests.                      *)
(***************************************************************************)
FinishedGraphs == {g \in Reqs : req[g].kind = "graph" /\ req[g].pc = "done"}

\* C11: a graph query never observes a node half deleted: a node it lists comes with
\* its ParserOutput (every stored node has one, and the deletion removes both in one
\* commit).
C11_GraphSeesWholeNode ==
    \A g \in FinishedGraphs : \A n \in req[g].body.nodes : n.parser # NULL

\* Every edge joins two stored nodes and every traffic row with an edge id names a
\* stored edge.
ReferencesResolve ==
    /\ \A e \in edges : e.source_node_id \in Ids(nodes) /\ e.target_node_id \in Ids(nodes)
    /\ \A t \in traffic_index : t.edge_id # NULL => t.edge_id \in Ids(edges)

NodeIffParser ==
    \A id \in used_ids :
        (id \in Ids(nodes)) <=> (\E p \in parser_outputs : p.node_id = id)

\* The commit of a capture adds one node row and one ParserOutput row, both of the
\* capture's id, and node rows appear in no other step.
CaptureCreatesOne ==
    /\ \A r \in Reqs :
          (req[r].kind = "analyze" /\ req[r].pc = "save" /\ req'[r].pc = "saved") =>
             /\ req[r].node_id \notin Ids(nodes)
             /\ nodes' = nodes \cup {NodeRow(req[r].node_id)}
             /\ parser_outputs' = parser_outputs \cup {ParserRow(req[r].node_id)}
             /\ Cardinality(nodes') = Cardinality(nodes) + 1
    /\ (Ids(nodes') \ Ids(nodes) # {}) =>
          \E r \in Reqs : req[r].kind = "analyze" /\ req[r].pc = "save" /\ req'[r].pc = "saved"

\* C13: the node row and the ParserOutput row of a capture are committed together (one
\* is stored iff the other is) and a successful capture creates exactly one node.
C13_NodeWithParserAtomically == []NodeIffParser /\ [][CaptureCreatesOne]_vars

\* C13 witness: one capture has committed its node and ParserOutput while another
\* capture has drawn its id and not yet committed.
C13_Witness ==
    \E r, q \in Reqs :
        /\ req[r].kind = "analyze" /\ req[r].pc = "saved"
        /\ NodeRow(req[r].node_id) \in nodes
        /\ ParserRow(req[r].node_id) \in parser_outputs
        /\ req[q].kind = "analyze" /\ req[q].pc = "save"
        /\ req[q].node_id \notin Ids(nodes)

Captures == {r \in Reqs : req[r].kind = "analyze" /\ req[r].node_id # NULL}
FileNames(node_id) == {ScreenshotName(node_id), AnnotatedName(node_id)}

FilesRemovedAfterCommit ==
    \A path \in files \ files' :
        \E d \in Reqs :
            /\ req[d].kind = "delete" /\ req[d].pc = "committed"
            /\ path \in {req[d].screenshot_path, req[d].annotated_path}
            /\ req[d].node_id \notin Ids(nodes)
            /\ req'[d].pc = "done"

\* A delete that got past the lookup ends "deleted" with its rows gone, whether or
\* not its files could be removed.
RemovalFailureSwallowed ==
    \A d \in Reqs :
        (req[d].kind = "delete" /\ req[d].pc = "done") =>
            /\ req[d].status = "deleted"
            /\ req[d].node_id \notin Ids(nodes)
            /\ \A p \in parser_outputs : p.node_id # req[d].node_id

StampedWithin(log, start_time, end_time) ==
    SelectSeq(log, LAMBDA entry :
                 entry.has_time /\ start_time <= entry.time /\ entry.time <= end_time)

C17_AssociationPersisted ==
    tm.op = "associate_traffic_with_edge" =>
        \A i \in 1..Len(tm.result) :
            \E t \in traffic_index :
                t.edge_id = tm.edge_id /\ t.burp_ref_id = tm.result[i].burp_ref_id

\* Two calls in a row do not hand the same log entry to two edges.
OneEdgePerEntry ==
    (tm.op = "associate_traffic_with_edge" /\ tm'.op = "associate_traffic_with_edge") =>
        \A i \in 1..Len(tm.result), j \in 1..Len(tm'.result) :
            tm.result[i].burp_ref_id = tm'.result[j].burp_ref_id =>
                tm.result[i].edge_id = tm'.result[j].edge_id

\* C18: no log entry (external reference id) is attributed to two different edges by
\* a sequence of associate_traffic_with_edge calls.
C18_AtMostOneEdge == [][OneEdgePerEntry]_vars

\* C20: when the traffic source fails (another status than 200, or a request
\* exception) fetch_proxy_history returns the empty list, and so do
\* get_traffic_by_timerange and associate_traffic_with_edge, none raising.
C20_SourceFailureYieldsEmpty ==
    /\ \A outcome \in SourceOutcomes \ {"200"} :
          fetch_proxy_history(outcome, proxy_history, 0) = [raised |-> FALSE, list |-> <<>>]
    /\ (tm.op # "none" /\ tm.source # "200") => (tm.result = <<>> /\ ~tm.raised)

\* C20 witness: the fetch raised a request exception during an association whose
\* window holds a logged entry, and the call returned the empty list.
C20_Witness ==
    /\ tm.op = "associate_traffic_with_edge"
    /\ tm.source = "request_exception"
    /\ StampedWithin(proxy_history, tm.start_time, tm.end_time) # <<>>
    /\ tm.result = <<>>
    /\ ~tm.raised

\* The traffic lists, said on the tables: the rows whose edge leaves the node, and
\* the rows naming the edge.
NodeTrafficOf(traffic_table, edge_table, node_id) ==
    {TrafficEntry(t) :
        t \in {x \in traffic_table :
                  \E e \in edge_table : e.id = x.edge_id /\ e.source_node_id = node_id}}
EdgeTrafficOf(traffic_table, edge_id) ==
    {TrafficEntry(t) : t \in {x \in traffic_table : x.edge_id = edge_id}}

\* The traffic read of a graph query yields, for every node and edge, exactly those
\* lists of the tables it reads.
TrafficReadIsExact ==
    \A g \in Reqs :
        (req[g].kind = "graph" /\ req[g].pc = "read_traffic" /\ req'[g].pc = "read_parser") =>
           /\ \A n \in Ids(nodes) \cup Ids(req[g].got_nodes) :
                 traffic_by_node(req'[g].got_traffic, n) = NodeTrafficOf(traffic_index, edges, n)
           /\ \A e \in Ids(edges) \cup Ids(req[g].got_edges) :
                 traffic_by_edge(req'[g].got_traffic, e) = EdgeTrafficOf(traffic_index, e)

\* The response lists, under each node and edge, the list read for it, and no entry
\* without an edge.
ResponseListsTraffic ==
    \A g \in FinishedGraphs :
        /\ \A n \in req[g].body.nodes : n.traffic = traffic_by_node(req[g].got_traffic, n.id)
        /\ \A e \in req[g].body.edges : e.traffic = traffic_by_edge(req[g].got_traffic, e.id)
        /\ \A t \in ListedTraffic(req[g].body) : t.edgeId # NULL

DumpRead == gpc \in {"loop", "done"}

IsScrollable(n) == n.scrollable = "true"
HasFourIntegers(n) == Len(n.bounds) = 4
IsScrollableWithBounds(n) == IsScrollable(n) /\ HasFourIntegers(n)

\* C26 (as claimed): every node carrying scrollable=true has its bounds listed in
\* scrollable_areas, in traversal order, and sets can_scroll_vertical; with no such
\* node the flag is false and the list empty.
C26_EveryScrollableListed ==
    (DumpRead /\ xml_str.parses) =>
        LET scrollables == SelectSeq(xml_str.nodes, IsScrollable)
        IN  /\ screen_state.can_scroll_vertical = (scrollables # <<>>)
            /\ Len(screen_state.scrollable_areas) = Len(scrollables)
            /\ \A i \in 1..Len(scrollables) :
                  screen_state.scrollable_areas[i] = scrollables[i].bounds

\* C26 (amended): every node carrying scrollable=true whose bounds hold exactly four
\* integers has its bounds listed in scrollable_areas, in traversal order, and sets
\* can_scroll_vertical; with no such node the flag is false and the list empty.
C26_ParsedScrollableListed ==
    (DumpRead /\ xml_str.parses) =>
        LET scrollables == SelectSeq(xml_str.nodes, IsScrollableWithBounds)
        IN  /\ screen_state.can_scroll_vertical = (scrollables # <<>>)
            /\ Len(screen_state.scrollable_areas) = Len(scrollables)
            /\ \A i \in 1..Len(scrollables) :
                  screen_state.scrollable_areas[i] = scrollables[i].bounds

\* C26 witness: two scrollable nodes with bounds around a scrollable node without,
\* and the two areas listed in their order.
C26_Witness ==
    /\ DumpRead /\ xml_str.parses
    /\ Len(xml_str.nodes) = 3
    /\ IsScrollableWithBounds(xml_str.nodes[1])
    /\ IsScrollable(xml_str.nodes[2]) /\ ~HasFourIntegers(xml_str.nodes[2])
    /\ IsScrollableWithBounds(xml_str.nodes[3])
    /\ Len(screen_state.scrollable_areas) = 2
    /\ screen_state.can_scroll_vertical

\* C27: on a dump that does not parse the screen state is the default one and the
\* pool empty, and the pass emits every detection as vision_only with the content
\* the detector gave it.
C27_MalformedDumpDegrades ==
    ~xml_str.parses =>
        /\ DumpRead => (screen_state = DefaultScreenState /\ adb_nodes = <<>>)
        /\ gpc = "done" =>
              /\ output.screen_state = DefaultScreenState
              /\ Len(output.elements) = Len(omni_json_list)
              /\ \A i \in 1..Len(output.elements) :
                    /\ output.elements[i].source = "vision_only"
                    /\ output.elements[i].content = omni_json_list[i].content
                    /\ DOMAIN output.elements[i] =
                          {"uid", "source", "type", "content", "bounds"}

\* C27 witness: a finished pass over two detections on the malformed dump, whose text
\* shows a scrollable node and a node one of the detections would match.
C27_Witness ==
    /\ ~xml_str.parses
    /\ gpc = "done"
    /\ Len(output.elements) = 2
    /\ \E i \in 1..Len(xml_str.nodes) : IsScrollableWithBounds(xml_str.nodes[i])
    /\ \E i \in 1..Len(xml_str.nodes), k \in 1..2 :
          AboveThreshold(calculate_iou(output.elements[k].bounds, xml_str.nodes[i].bounds))

\* C28: the pool is exactly the nodes of the dump whose bounds hold four integers,
\* in document order, whatever their text or flags; the other nodes are absent.
C28_PoolIsParsedNodes ==
    (DumpRead /\ xml_str.parses) =>
        LET parsed == SelectSeq(xml_str.nodes, HasFourIntegers)
        IN  /\ Len(adb_nodes) = Len(parsed)
            /\ \A i \in 1..Len(parsed) :
                  /\ adb_nodes[i].bounds = parsed[i].bounds
                  /\ adb_nodes[i].text = parsed[i].text
                  /\ adb_nodes[i].description = parsed[i].content_desc
                  /\ adb_nodes[i].resource_id = parsed[i].resource_id
                  /\ adb_nodes[i].class = parsed[i].class

\* C28 witness: a pool of two nodes from a dump of three: a layout node with neither
\* text nor clickable flag is kept, a node with text but three integers is not.
C28_Witness ==
    /\ DumpRead /\ xml_str.parses
    /\ Len(xml_str.nodes) = 3 /\ Len(adb_nodes) = 2
    /\ \E i \in 1..3 : ~HasFourIntegers(xml_str.nodes[i]) /\ xml_str.nodes[i].text # ""
    /\ \E j \in 1..2 : adb_nodes[j].text = "" /\ ~adb_nodes[j].actions.clickable

(***************************************************************************)
(* Properties of calculate_iou.                                            *)
(***************************************************************************)
\* A box as the set of pixels it covers; a box that is not inverted covers
\* (x2 - x1) * (y2 - y1) of them.
Upright(box) == box[1] <= box[3] /\ box[2] <= box[4]
Pixels(box) == (box[1]..(box[3] - 1)) \X (box[2]..(box[4] - 1))
Inverted(box) == ~Upright(box)
HasNoArea(box) == box[1] = box[3] \/ box[2] = box[4]

\* C29: for two axis-aligned rectangles the value is the area of their intersection
\* over the area of their union when the union has area, and 0 when it has none; it
\* is 1 for a rectangle with area against itself and 0 for rectangles that share no
\* pixel.
C29_IouIsIntersectionOverUnion ==
    (iou_returned # NoIou /\ Upright(arg_boxA) /\ Upright(arg_boxB)) =>
        LET inter == Cardinality(Pixels(arg_boxA) \cap Pixels(arg_boxB))
            union == Cardinality(Pixels(arg_boxA) \cup Pixels(arg_boxB))
        IN  /\ union # 0 => RatEq(iou_returned, <<inter, union>>)
            /\ union = 0 => RatEq(iou_returned, <<0, 1>>)
            /\ (arg_boxA = arg_boxB /\ ~HasNoArea(arg_boxA)) => RatEq(iou_returned, <<1, 1>>)
            /\ inter = 0 => RatEq(iou_returned, <<0, 1>>)

\* C29 witness: two rectangles with area that overlap in part: IoU 1/3.
C29_Witness ==
    /\ iou_returned # NoIou
    /\ Upright(arg_boxA) /\ Upright(arg_boxB)
    /\ arg_boxA # arg_boxB
    /\ Pixels(arg_boxA) \cap Pixels(arg_boxB) # {}
    /\ RatEq(iou_returned, <<1, 3>>)

\* C30: the value lies in [0, 1] for every pair of boxes of four integers, boxes
\* without area and boxes with an inverted corner included.
C30_IouInUnitInterval ==
    iou_returned # NoIou => (iou_returned[2] > 0 /\ 0 <= iou_returned[1] /\ iou_returned[1] <= iou_returned[2])

\* C30 witness: the value for an inverted box against a box without area.
C30_Witness ==
    /\ iou_returned # NoIou
    /\ Inverted(arg_boxA)
    /\ Upright(arg_boxB) /\ HasNoArea(arg_boxB)

(***************************************************************************)
(* Properties of the live-update broadcaster.                              *)
(***************************************************************************)
\* The broadcast made for the publishing request is over: it returned or raised.
BroadcastOver == bc.pc \in {"done", "raised"}
\* It has started to run: it has read the registry.
BroadcastRan == bc.pc \in {"sending", "done", "raised"}

\* C21: when a delivery fails during a publish, the failing subscriber is removed
\* from the registry, no other subscriber is removed by the publish, and every other
\* subscriber registered when the publish started (and still connected) receives the
\* message.
C21_FailureIsolated ==
    (BroadcastOver /\ bc.failed # {}) =>
        /\ bc.failed \cap active_connections = {}
        /\ \A c \in bc.at_start \ active_connections : c \in bc.failed \/ ws[c] = "closed"
        /\ \A c \in bc.at_start \ bc.failed : ws[c] = "open" => c \in bc.delivered

\* C22: the registry is read and changed only on the server loop: a broadcast made
\* through broadcast_update that has started to run, runs there, whichever path
\* broadcast_update took.
C22_RegistryOnServerLoopOnly == BroadcastRan => bc.ctx = "loop"

\* C23: broadcast_update returns without waiting for any delivery, on the hand-off
\* path and on the fallback path: the call can always be completed, and whenever the
\* delivery is still ahead or under way the caller has returned.
C23_PublishNeverWaits ==
    /\ pub = "calling" => ENABLED BroadcastUpdate
    /\ bc.pc \in {"scheduled", "sending"} => pub = "returned"
    /\ pub \in {"calling", "returned"}

\* C23 witness: the caller has returned while the broadcast, run by the fallback
\* thread, is suspended in its first send with a second subscriber still to serve.
C23_Witness ==
    /\ pub = "returned"
    /\ bc.ctx = "thread"
    /\ bc.pc = "sending"
    /\ bc.delivered \cup bc.failed = {}
    /\ Cardinality(bc.at_start) = 2

(***************************************************************************)
(* Properties of the connection monitor.                                   *)
(***************************************************************************)
\* C24: the monitor publishes only on a poll whose status differs from the status
\* of the poll before it: the first poll publishes nothing, and a poll that returns
\* what the poll before it returned publishes nothing.
C24_EdgeTriggered ==
    mon.published => (polled_before # None /\ mon.current_status # polled_before)

\* C25: once the shutdown signal is set the monitor starts no new poll and its only
\* step is to leave, from the wait between polls as from anywhere else; and it does
\* leave.
C25_ShutdownEndsMonitor ==
    /\ [][MonitorPoll => ~shutdown_event]_vars
    /\ []((shutdown_event /\ mon.pc # "done") =>
             (~ENABLED MonitorPoll /\ ~ENABLED MonitorSend
                /\ ENABLED (MonitorStops \/ MonitorCancelled)))
    /\ []((shutdown_event /\ mon.pc = "wait") => ENABLED MonitorStops)
    /\ (shutdown_event ~> mon.pc = "done")

\* C25 witness: the monitor is over after a shutdown that found it between two polls,
\* with a status change it had not polled yet.
C25_Witness ==
    /\ shutdown_event
    /\ mon.pc = "done"
    /\ mon.previous_status # None
    /\ mon.previous_status = mon.current_status
    /\ device_status # mon.current_status

(***************************************************************************)
(* Properties of the graph_updated events of the store.                    *)
(***************************************************************************)
\* The committed tables hold the node with its ParserOutput.
NodeCommitted(node_id) ==
    /\ node_id \in Ids(nodes)
    /\ \E p \in parser_outputs : p.node_id = node_id

\* The committed tables hold neither the node, its ParserOutput nor an edge
\* touching it.
NodeRemoved(node_id) ==
    /\ node_id \notin Ids(nodes)
    /\ \A p \in parser_outputs : p.node_id # node_id
    /\ \A e \in edges : ~Touches(e, node_id)

DeletedSince(node_id) == \E d \in CommittedDeletes : req[d].node_id = node_id

\* A step publishes at most one event, and the change it announces is in the
\* committed tables before the step: the new node with its ParserOutput (unless a
\* deletion of that node has committed in between), or the absence of the deleted
\* node, its ParserOutput and its edges.
PublishFollowsCommit ==
    events' # events =>
       /\ Len(events') = Len(events) + 1
       /\ SubSeq(events', 1, Len(events)) = events
       /\ LET e == events'[Len(events')]
          IN  /\ e.type = "graph_updated"
              /\ e.message = "New node created" =>
                    NodeCommitted(e.nodeId) \/ DeletedSince(e.nodeId)
              /\ e.message = "Node deleted" => NodeRemoved(e.nodeId)

\* A graph query that arrives after an event reads a nodes table with the announced
\* node in it, and without the node announced as deleted.
QueryAfterEventSeesChange ==
    \A g \in Reqs :
        (req[g].pc = "idle" /\ req'[g].kind = "graph") =>
           \A i \in 1..Len(events) :
              LET e == events[i]
              IN  /\ e.message = "New node created" =>
                        e.nodeId \in Ids(req'[g].got_nodes) \/ DeletedSince(e.nodeId)
                  /\ e.message = "Node deleted" => e.nodeId \notin Ids(req'[g].got_nodes)

\* The response of a graph query lists the nodes it read.
ResponseListsReadNodes ==
    \A g \in Reqs :
        (req[g].kind = "graph" /\ req[g].pc # "done" /\ req'[g].pc = "done") =>
           Ids(req'[g].body.nodes) = Ids(req[g].got_nodes)

\* C31: a graph_updated event is published only after the store change it announces
\* has committed, so a graph query made after the event lists the new node and no
\* longer lists the deleted one.
C31_PublishAfterCommit ==
    [][PublishFollowsCommit /\ QueryAfterEventSeesChange /\ ResponseListsReadNodes]_vars

\* C31 witness: a capture has published "New node created" and a graph query that
\* arrived afterwards has answered with that node in its list.
C31_Witness ==
    \E g \in FinishedGraphs, i \in 1..Len(events) :
        /\ events[i].message = "New node created"
        /\ events[i].nodeId \in Ids(req[g].body.nodes)
        /\ \E a \in Reqs : a < g /\ req[a].kind = "analyze" /\ req[a].status = "ok"
                                 /\ req[a].node_id = events[i].nodeId

(***************************************************************************)
(* Properties of a capture that fails.                                     *)
(***************************************************************************)
\* Capture requests that ended in an error: the device was not connected, the
\* screenshot failed, or the vision analysis raised.
FailedCaptures ==
    {r \in Reqs : req[r].kind = "analyze" /\ req[r].pc = "done" /\ req[r].status # "ok"}

\* The step in which a capture fails leaves the four tables and the published
\* events as they were.
FailureChangesNoStore ==
    \A r \in Reqs :
        (req[r].pc = "idle" /\ req'[r].kind = "analyze" /\ req'[r].pc = "done") =>
           /\ req'[r].status # "ok"
           /\ UNCHANGED <<nodes, edges, traffic_index, parser_outputs, events>>

\* A failed capture does nothing more, and the id it drew is in no row and in no
\* event, then and ever after.
FailedLeavesNoTrace ==
    \A r \in FailedCaptures :
        /\ req[r].node_id \notin Ids(nodes)
        /\ \A p \in parser_outputs : p.node_id # req[r].node_id
        /\ \A i \in 1..Len(events) : events[i].nodeId # req[r].node_id

FailedIsFinal == \A r \in FailedCaptures : req'[r] = req[r]

\* C39: a capture request that fails because the device is not connected, the
\* screenshot fails or the vision analysis raises writes no Node row and no
\* ParserOutput row and publishes no graph_updated event.
C39_FailedCaptureWritesNothing ==
    [][FailureChangesNoStore /\ FailedIsFinal]_vars /\ []FailedLeavesNoTrace

\* C39 witness: a capture whose vision analysis raised has left its screenshot file
\* and nothing else, while another capture has created a node and published it.
C39_Witness ==
    \E r \in FailedCaptures, a \in Reqs :
        /\ req[r].status = "500"
        /\ ScreenshotName(req[r].node_id) \in files
        /\ req[a].kind = "analyze" /\ req[a].status = "ok"
        /\ NodeCommitted(req[a].node_id)
        /\ Len(events) = 1

(***************************************************************************)
(* Properties of the monitor and the broadcaster under registry changes.   *)
(***************************************************************************)
\* C34: every status change between two consecutive polls is published exactly once:
\* a pass of the loop publishes exactly when its poll differs from the poll before
\* it, and once the pass is over the remembered previous status is the status it
\* polled, also when its publish step ended in an error.
C34_EveryChangePublishedOnce ==
    /\ mon.pc \in {"sending", "wait"} =>
          (mon.published <=> (polled_before # None /\ mon.current_status # polled_before))
    /\ mon.pc = "wait" => mon.previous_status = mon.current_status

\* C35: a publish in progress tolerates connects and disconnects: it ends without an
\* error, and every subscriber registered when it started that has neither failed nor
\* disconnected has received the message.
C35_PublishToleratesRegistryChanges ==
    BroadcastOver =>
        /\ bc.pc = "done"
        /\ \A c \in bc.at_start : (c \notin bc.failed /\ ws[c] = "open") => c \in bc.delivered

(***************************************************************************)
(* Properties of the greedy pass and of what matching may change.          *)
(***************************************************************************)
\* An iteration of the loop leaves the elements emitted before it, their matches and
\* the flags already set as they were.
EmittedStay ==
    (gpc = "loop" /\ gpc' \in {"loop", "done"}) =>
       /\ Len(final_elements') >= Len(final_elements)
       /\ \A k \in Emitted :
             final_elements'[k] = final_elements[k] /\ match_of'[k] = match_of[k]
       /\ \A m \in Pool : adb_nodes[m].matched => adb_nodes'[m].matched

\* The element just emitted is the last element of a pass over the detections up
\* to it alone.
PrefixDetermines ==
    (gpc = "loop" /\ final_elements # <<>>) =>
       LET k == Len(final_elements)
       IN  final_elements[k] =
              generate_merged_json(xml_str, SubSeq(omni_json_list, 1, k),
                                   screen[1], screen[2]).elements[k]

\* A later detection j with a strictly greater IoU with the node taken by detection i
\* does not get that node: it takes another node, free for it and above the
\* threshold, or none.
LaterBetterDoesNotSteal ==
    gpc \in {"loop", "done"} =>
       \A i, j \in Emitted :
          (i < j /\ match_of[i] # 0 /\ RatGt(IouOf(j, match_of[i]), IouOf(i, match_of[i]))) =>
             /\ match_of[j] # match_of[i]
             /\ final_elements[i].adb_attributes = AdbAttributes(adb_nodes[match_of[i]])
             /\ match_of[j] # 0 =>
                   (match_of[j] \in FreeFor(j) /\ AboveThreshold(IouOf(j, match_of[j])))
             /\ match_of[j] = 0 => final_elements[j].source = "vision_only"

\* C33: the greedy pass never revisits an assignment: the element of detection i
\* depends only on detections 1..i and the pool, and a node consumed by detection i
\* stays with it even when a later detection has a strictly greater IoU with it.
C33_GreedyNeverRevisits ==
    [][EmittedStay]_vars /\ []PrefixDetermines /\ []LaterBetterDoesNotSteal

\* C33 witness: the second detection fits the node taken by the first strictly
\* better than the first does, and ends vision_only.
C33_Witness ==
    /\ gpc = "done"
    /\ Len(final_elements) = 2
    /\ match_of[1] # 0
    /\ RatGt(IouOf(2, match_of[1]), IouOf(1, match_of[1]))
    /\ final_elements[2].source = "vision_only"

\* int(x * size) for a normalized coordinate x = n/d >= 0: the integer part.
PixelOf(x, size) == (x[1] * size) \div x[2]
PixelBox(bbox) ==
    <<PixelOf(bbox[1], screen[1]), PixelOf(bbox[2], screen[2]),
      PixelOf(bbox[3], screen[1]), PixelOf(bbox[4], screen[2])>>

VisionFields == {"uid", "source", "type", "content", "bounds"}

\* C40: matching changes only source, content and the attribute bundle: uid, type
\* and bounds of an element are those of its detection, the bounds being the
\* truncated product of the normalized box and the screen size and never the node's,
\* an unmatched element keeps the detection's content, and the bundle is present
\* exactly when the source is vision_enriched.
C40_MatchingChangesOnlySourceContentBundle ==
    gpc \in {"loop", "done"} =>
       \A k \in Emitted :
          LET el == final_elements[k]
              d == omni_json_list[k]
          IN  /\ el.uid = k
              /\ el.type = d.type
              /\ el.bounds = PixelBox(d.bbox)
              /\ el.source \in {"vision_only", "vision_enriched"}
              /\ el.source = "vision_enriched" <=> match_of[k] # 0
              /\ ("adb_attributes" \in DOMAIN el) <=> el.source = "vision_enriched"
              /\ DOMAIN el \subseteq VisionFields \cup {"adb_attributes"}
              /\ VisionFields \subseteq DOMAIN el
              /\ el.source = "vision_only" => el.content = d.content

\* C40 witness: an enriched element whose bounds differ from the bounds of the node
\* it matched and whose content came from the node, next to a vision_only element.
C40_Witness ==
    /\ gpc = "done"
    /\ \E k, u \in Emitted :
          /\ match_of[k] # 0
          /\ final_elements[k].bounds # adb_nodes[match_of[k]].bounds
          /\ final_elements[k].content # omni_json_list[k].content
          /\ final_elements[k].bounds[3] * omni_json_list[k].bbox[3][2]
                # omni_json_list[k].bbox[3][1] * screen[1]
          /\ final_elements[u].source = "vision_only"

(***************************************************************************)
(* Properties of the payload a capture persists.                           *)
(***************************************************************************)
\* The parser_outputs rows of the captured node.
CapturedRows == {p \in parser_outputs : p.node_id = cap.node_id}

\* What the reconciliation of the capture's detections and dump yields.
Reconciliation == generate_merged_json(xml_str, omni_json_list, screen[1], screen[2])

\* C32: the ParserOutput persisted for a captured node is the reconciliation output
\* of that capture, the element list computed from its detections and its dump, and
\* a graph query returns for the node exactly the payload that was persisted.
C32_PersistedIsReconciliation ==
    /\ cap.pc \in {"saved", "done", "queried"} =>
          /\ Cardinality(CapturedRows) = 1
          /\ \A p \in CapturedRows :
                json_loads(p.parsed_content_list) = Reconciliation.elements
    /\ cap.pc = "queried" =>
          \A p \in CapturedRows :
             cap.loaded.parsedContentList = json_loads(p.parsed_content_list)

(***************************************************************************)
(* Properties of the lazily created singletons.                            *)
(***************************************************************************)
\* Threads whose call has returned, by callable.
Returned(ops) == {t \in Threads : th[t].op \in ops /\ th[t].pc = "done"}

\* Threads inside a call.
Running == {t \in Threads : th[t].pc \notin {"idle", "done"}}

\* A thread holds VisionEngineMeta._lock only inside __call__, where it asks for no
\* other lock; so whenever a call is under way some thread can take a step.
LocksNeverDeadlock ==
    /\ \A t \in Threads :
          _lock = t => th[t].pc \in {"meta_recheck", "meta_init", "meta_store"}
    /\ \A t \in Threads :
          _vision_engine_lock = t =>
             th[t].pc \in {"gve_recheck", "gve_assign", "meta_check", "meta_lock",
                           "meta_recheck", "meta_init", "meta_store", "meta_return"}
    /\ Running # {} => ENABLED VisionProgress

\* C36: under concurrent calls of get_vision_engine() and VisionEngine(),
\* VisionEngine.__init__ runs at most once, every caller receives that one
\* instance, and the two locks never deadlock.
C36_VisionEngineBuiltOnce ==
    /\ objects.VisionEngine <= 1
    /\ \A t \in Returned(VisionCalls) : th[t].got = Obj("VisionEngine", 1)
    /\ \A t, u \in Returned(VisionCalls) : th[t].got = th[u].got
    /\ LocksNeverDeadlock

\* C36 witness: three first calls race: all found no instance at their first test;
\* one, inside get_vision_engine and holding both locks, has run __init__ and is
\* about to store the instance, a second get_vision_engine waits for the outer lock
\* and a VisionEngine() waits for the inner lock.
C36_Witness ==
    \E t, u, v \in Threads :
        /\ th[t].op = "get_vision_engine" /\ th[t].pc = "meta_store"
        /\ _vision_engine_lock = t /\ _lock = t
        /\ th[u].op = "get_vision_engine" /\ th[u].pc = "gve_lock"
        /\ th[v].op = "VisionEngine" /\ th[v].pc = "meta_lock"
        /\ objects.VisionEngine = 1

\* C37: get_adb_controller() and get_traffic_mapper() construct at most one instance
\* each, also when the first calls are concurrent, and every caller of an accessor
\* receives the same instance.
C37_AccessorsBuildOnce ==
    /\ objects.ADBController <= 1
    /\ objects.TrafficMapper <= 1
    /\ \A t, u \in Returned(AccessorCalls) : th[t].op = th[u].op => th[t].got = th[u].got

\* C38: a get_vision_engine() called after reset_vision_engine() has dropped the
\* instance returns a newly constructed VisionEngine, not the old one.
C38_ResetForcesNewEngine ==
    \A t \in Returned({"get_vision_engine"}) :
        \A r \in th[t].after :
            th[r].old # None => (th[t].got # th[r].old /\ objects.VisionEngine >= 2)

====
